---- MODULE Spec2Model ----
(***************************************************************************)
(* Model of the SkyCooker BLE driver (custom_components/skycooker):        *)
(* CookerConnection (cooker_connection.py) on top of SkyCookerProtocol     *)
(* (skycooker.py), driven by the periodic poll (__init__.py) and by the    *)
(* control entities (switch.py, select.py, number.py).                     *)
(*                                                                         *)
(* Scheduling: asyncio.  A task runs alone from one await to the next, so  *)
(* every program counter is either an await point (AwaitPcs: other tasks   *)
(* and the transport may run) or a point inside synchronous code (only the *)
(* task itself may step).  stop() is run by an executor thread             *)
(* (__init__.py:145) and may happen at any instant.                        *)
(***************************************************************************)
EXTENDS Integers, Sequences, FiniteSets, TLC

\* ------------------------------------------------------------ bounds
\* Spec: top-level operations (update() calls, control operations) of the one task
MaxOps == 1
\* SpecPar: top-level operations of task a and of task b, which run concurrently
MaxOpsA == 1
MaxOpsB == 1
\* SpecPar: the largest tries argument of update()
MaxTriesPar == 2
\* SpecCtl: top-level operations of task a and of task b on a device in range
MaxCtlA == 2
MaxCtlB == 1
\* SpecCtl: the tries argument of update()
TriesCtl == 1
\* dispatcher specification: operations of the task, largest retries argument
MaxCmdOps == 2
MaxRetriesIn == 2
MaxDecOps == 1
MaxStatOps == 150
StatPeriod == 3
MaxTargetOps == 3
MaxDelayOps == 3

\* ------------------------------------------------- program constants
COMMAND_GET_VERSION == 1
COMMAND_TURN_OFF == 4
COMMAND_SET_MAIN_MODE == 5
COMMAND_GET_STATUS == 6
COMMAND_SET_DELAY_TIME == 20
COMMAND_SET_POST_HEAT == 22
COMMAND_AUTH == 255
MODE_MULTICOOK == 5
MIN_TEMPERATURE == 30
MAX_TEMPERATURE == 120
MODE_OFF == 255
MAX_TRIES == 3
DefaultRetries == 2
MaxStats == 100
MagicStart == 85
MagicEnd == 170
SeqMod == 256
StatusLen == 12

\* two host tasks of the event loop (the poll of __init__.py:51-63 and the
\* service calls behind the entities of switch.py, select.py, number.py)
Tasks == {"a", "b"}

\* ------------------------------------------------------ frame codec
\* cooker_connection.py:169  bytes([0x55, self._iter, command] + params + [0xAA])
Frame(seq, command, params) == <<MagicStart, seq, command>> \o params \o <<MagicEnd>>

\* cooker_connection.py:228  r[0] != 0x55 or r[-1] != 0xAA
BadMagic(r) == r[1] # MagicStart \/ r[Len(r)] # MagicEnd

\* an extraction that keeps the end marker
CleanToEnd(r) == SubSeq(r, 4, Len(r))

\* cooker_connection.py:194  bytes(response[3:-1])
Clean(r) == SubSeq(r, 4, Len(r) - 1)

\* ---------------------------------------------- device state decoder
\* a decoder that takes the wait fields and the mode byte as they are
DecodeStatusRaw(r) ==
    [ status             |-> r[12],
      mode               |-> r[4],
      submode            |-> r[5],
      temperature        |-> r[6],
      target_temperature |-> r[6],
      hours              |-> r[7],
      minutes            |-> r[8],
      wait_hours         |-> r[9],
      wait_minutes       |-> r[10],
      heat               |-> r[11],
      power              |-> r[12] > 0,
      postheat           |-> r[11] = 1 ]

\* skycooker.py:176-209 (Python index i is TLA+ index i+1)
DecodeStatus(r) ==
    [ status             |-> r[12],
      mode               |-> r[4] + 1,
      submode            |-> r[5],
      temperature        |-> r[6],
      target_temperature |-> r[6],
      hours              |-> r[7],
      minutes            |-> r[8],
      wait_hours         |-> r[9] - r[7],
      wait_minutes       |-> r[10] - r[8],
      heat               |-> r[11],
      power              |-> r[12] > 0,
      postheat           |-> r[11] = 1 ]

\* skycooker.py:176  r[11] raises IndexError on a payload shorter than 12 bytes
DecodeFails(r) == Len(r) < StatusLen

\* a decoder that reads missing bytes as zero
get_status_padded(r) ==
    [ok |-> TRUE, state |-> <<DecodeStatus(r \o [i \in 1 .. StatusLen |-> 0])>>]

\* skycooker.py:172-219  get_status() on the payload r that command() returned:
\* the CookerState, or the exception of the decoding re-raised
get_status(r) ==
    IF DecodeFails(r) THEN [ok |-> FALSE, state |-> << >>]
    ELSE [ok |-> TRUE, state |-> <<DecodeStatus(r)>>]

\* ---------------------------------------------------- stats tracker
\* a buffer that refuses the new entry once it is full
add_stat_oldest(buf, value) ==
    LET b == Append(buf, value)
    IN  IF Len(b) > MaxStats THEN SubSeq(b, 1, MaxStats) ELSE b

\* a rate rounded to the nearest integer
success_rate_rounded(buf) ==
    IF Len(buf) = 0 THEN 0
    ELSE (200 * Cardinality({i \in DOMAIN buf : buf[i]}) + Len(buf)) \div (2 * Len(buf))

\* cooker_connection.py:435-440  int(100 * successes / total): int() cuts the
\* fraction of a non-negative quotient
success_rate(buf) ==
    IF Len(buf) = 0 THEN 0
    ELSE (100 * Cardinality({i \in DOMAIN buf : buf[i]})) \div Len(buf)

\* cooker_connection.py:412-416
add_stat(buf, value) ==
    LET b == Append(buf, value)
    IN  IF Len(b) > MaxStats THEN SubSeq(b, Len(b) - MaxStats + 1, Len(b)) ELSE b

\* the same cut applied to the parallel record of who appended each entry
TagStat(tags, tag) ==
    LET b == Append(tags, tag)
    IN  IF Len(b) > MaxStats THEN SubSeq(b, Len(b) - MaxStats + 1, Len(b)) ELSE b

\* ------------------------------------------------- the device's answers
\* status payloads the device may send: two full 12-byte layouts, one short
StatusA == <<0, 0, 0, 5, 0, 80, 2, 30, 3, 30, 1, 5>>
StatusB == <<0, 0, 0, 0, 0, 0, 0, 0, 0, 0, 0, 0>>
StatusShort == <<0, 0, 0>>

\* a 12-byte status payload in the layout skycooker.py:176-186 reads
StatusPayload(m, h, mi, wh, wm, heat, st) ==
    <<0, 0, 0, m, 0, 80, h, mi, wh, wm, heat, st>>

\* status payloads of a device in every phase: idle, cooking, delayed start,
\* wait fields equal to, one less than and unrelated to the cooking fields,
\* post-heat byte 0, 1 and 2, and one payload longer than 12 bytes
StatusInputs ==
    { StatusPayload(x[1], hw[1], mw[1], hw[2], mw[2], x[2], x[3]) :
        x \in {<<0, 0, 0>>, <<15, 1, 5>>, <<15, 2, 255>>},
        hw \in {<<2, 2>>, <<2, 1>>, <<0, 255>>},
        mw \in {<<30, 30>>, <<30, 29>>} }
    \cup {StatusA \o <<7>>}

PayloadsFor(command, accepts) ==
    IF command = COMMAND_GET_STATUS THEN {StatusA, StatusB, StatusShort}
    ELSE IF command = COMMAND_AUTH THEN {IF accepts THEN <<1>> ELSE <<0>>}
    ELSE {<<1>>, <<0>>}

\* a notification that is not a frame (wrong end marker)
Garbage == <<MagicStart, 0, 0>>

VARIABLES
    \* --- CookerConnection fields (cooker_connection.py:25-46)
    client,          \* self._client: 0 is None, k > 0 a client object
    auth_ok,         \* truth value of self._auth_ok
    last_connect_ok, \* self._last_connect_ok
    last_auth_ok,    \* truth value of self._last_auth_ok
    iter,            \* self._iter, the sequence counter
    update_lock,     \* self._update_lock: "free" or the task holding it
    disposed,        \* self._disposed
    last_data,       \* self._last_data: << >> is None, else the last notification
    status,          \* self._status: << >> is None, else <<CookerState>>
    successes,       \* self._successes
    persistent,      \* self.persistent
    \* --- transport and device
    linkUp,          \* client objects whose link is up (is_connected)
    devAccepts,      \* the device accepts this client's key (pairing was done)
    linkAuth,        \* client objects on whose link an authenticate frame was
                     \* written and answered with a non-zero byte
    \* --- per task: position and locals
    pc, tries, extra, cmd, data, attempt, ret, dret, dclient, wclient, res, err, result,
    \* --- per task: record of the running update() call
    ops,             \* top-level operations started
    n0,              \* the tries argument of the top-level update() call
    cycles,          \* connect-auth-fetch cycles entered in this call
    failed,          \* cycles of this call that ended in the exception handler
    steps,           \* what the current cycle did, in order
    fresh,           \* the call started with no client (Disconnected)
    statTag,         \* for each entry of successes: <<task, ops[task]>> that appended it
    tmo,             \* attempts of the running command() call that timed out
    writes,          \* frames the running command() call wrote to the transport
    limit,           \* top-level operations each task may start
    args,            \* the arguments of the set_target_* / set_delay_time call each task made last
    delay,           \* tenths of a second the running command() call slept last (0: not yet)
    dev              \* what the device holds: mode byte, cooking time, raw wait fields

connVars == <<client, auth_ok, last_connect_ok, last_auth_ok, iter, update_lock,
              disposed, last_data, status, successes, persistent>>
envVars == <<linkUp, devAccepts, linkAuth, dev>>
taskVars == <<pc, tries, extra, cmd, data, attempt, ret, dret, dclient, wclient, res, err, result>>
recVars == <<ops, n0, cycles, failed, steps, fresh, statTag, limit, args>>
callVars == <<recVars, tmo, writes, delay>>
vars == <<connVars, envVars, taskVars, callVars>>

NoCmd == [command |-> 0, params |-> << >>, retries |-> 0, timeout |-> << >>]
NoRes == [ok |-> FALSE, payload |-> << >>, err |-> "none"]
\* no set_target_* or set_delay_time call was made yet
NoArgs == [op |-> "none", temp |-> 0, name |-> "", wait |-> << >>]
\* a device that is off: mode byte 0, cooking time 0:00, raw wait fields 0:0
NoDev == [mode |-> 0, hours |-> 0, minutes |-> 0, wait_hours |-> 0, wait_minutes |-> 0, on |-> FALSE]

\* cooker_connection.py:25-46  the state after construction
Constructed ==
    /\ client = 0
    /\ auth_ok = FALSE
    /\ last_connect_ok = FALSE
    /\ last_auth_ok = FALSE
    /\ iter = 0
    /\ update_lock = "free"
    /\ disposed = FALSE
    /\ last_data = << >>
    /\ status = << >>
    /\ successes = << >>
    /\ persistent \in BOOLEAN
    /\ linkUp = {}
    /\ devAccepts \in BOOLEAN
    /\ linkAuth = {}
    /\ pc = [t \in Tasks |-> "idle"]
    /\ tries = [t \in Tasks |-> 0]
    /\ extra = [t \in Tasks |-> "none"]
    /\ cmd = [t \in Tasks |-> NoCmd]
    /\ data = [t \in Tasks |-> << >>]
    /\ attempt = [t \in Tasks |-> 0]
    /\ ret = [t \in Tasks |-> "idle"]
    /\ dret = [t \in Tasks |-> "idle"]
    /\ dclient = [t \in Tasks |-> 0]
    /\ wclient = [t \in Tasks |-> 0]
    /\ res = [t \in Tasks |-> NoRes]
    /\ err = [t \in Tasks |-> "none"]
    /\ result = [t \in Tasks |-> "none"]
    /\ ops = [t \in Tasks |-> 0]
    /\ n0 = [t \in Tasks |-> 0]
    /\ cycles = [t \in Tasks |-> 0]
    /\ failed = [t \in Tasks |-> 0]
    /\ steps = [t \in Tasks |-> << >>]
    /\ fresh = [t \in Tasks |-> FALSE]
    /\ statTag = << >>
    /\ tmo = [t \in Tasks |-> 0]
    /\ writes = [t \in Tasks |-> 0]
    /\ delay = [t \in Tasks |-> 0]
    /\ args = [t \in Tasks |-> NoArgs]

\* one host task
Init ==
    /\ Constructed
    /\ dev = NoDev
    /\ limit = [t \in Tasks |-> IF t = "a" THEN MaxOps ELSE 0]

\* ------------------------------------------------------- scheduling
AwaitPcs == {"idle", "u_lock", "disc_wait", "connecting", "extra_wait", "u_sleep",
             "cmd_write", "cmd_wait", "cmd_sleep"}

\* task t may take a step: no other task is inside synchronous code
MayRun(t) == \A u \in Tasks \ {t} : pc[u] \in AwaitPcs

\* the event loop is free for a transport callback
Quiet == \A u \in Tasks : pc[u] \in AwaitPcs

\* a test that only looks for a client object
ConnectedLax == client # 0

\* self._client and self._client.is_connected
Connected == client # 0 /\ client \in linkUp

Goto(t, l) == pc' = [pc EXCEPT ![t] = l]

\* an exception that is handled while the lock is still held
RaiseInUpdateLocked(t, e) ==
    /\ pc' = [pc EXCEPT ![t] = "u_exc"]
    /\ err' = [err EXCEPT ![t] = e]
    /\ update_lock' = update_lock
    /\ failed' = [failed EXCEPT ![t] = @ + 1]

\* an exception leaves the "async with self._update_lock" block of update():
\* the lock is released and the handler of lines 396-410 runs
RaiseInUpdate(t, e) ==
    /\ pc' = [pc EXCEPT ![t] = "u_exc"]
    /\ err' = [err EXCEPT ![t] = e]
    /\ update_lock' = "free"
    /\ failed' = [failed EXCEPT ![t] = @ + 1]

\* await self.command(c, p, retries = r), continuing at l
Call(t, c, p, r, l) ==
    /\ cmd' = [cmd EXCEPT ![t] = [command |-> c, params |-> p, retries |-> r,
                                  timeout |-> << >>]]
    /\ ret' = [ret EXCEPT ![t] = l]
    /\ pc' = [pc EXCEPT ![t] = "cmd_begin"]

\* the locals of a finished call are gone
DropFrame(t) ==
    /\ cmd' = [cmd EXCEPT ![t] = NoCmd]
    /\ data' = [data EXCEPT ![t] = << >>]
    /\ ret' = [ret EXCEPT ![t] = "idle"]
    /\ dret' = [dret EXCEPT ![t] = "idle"]
    /\ dclient' = [dclient EXCEPT ![t] = 0]
    /\ wclient' = [wclient EXCEPT ![t] = 0]
    /\ res' = [res EXCEPT ![t] = NoRes]

DropLocals(t) ==
    /\ DropFrame(t)
    /\ attempt' = [attempt EXCEPT ![t] = 0]
    /\ tmo' = [tmo EXCEPT ![t] = 0]
    /\ writes' = [writes EXCEPT ![t] = 0]
    /\ delay' = [delay EXCEPT ![t] = 0]

\* entries of the record of a cycle: a transport or bookkeeping step, a command
Did(what) == <<what, 0>>
Sent(c) == <<"command", c>>

Log(t, e) == steps' = [steps EXCEPT ![t] = IF update_lock = t THEN Append(@, e) ELSE @]

\* ------------------------------------------------------------ update()
\* __init__.py:55  await cooker.update(); update(tries, extra_action) in general
StartUpdate(t, n, x) ==
    /\ pc[t] = "idle" /\ MayRun(t)
    /\ ops[t] < limit[t]
    /\ ops' = [ops EXCEPT ![t] = @ + 1]
    /\ tries' = [tries EXCEPT ![t] = n]
    /\ extra' = [extra EXCEPT ![t] = x]
    /\ n0' = [n0 EXCEPT ![t] = n]
    /\ cycles' = [cycles EXCEPT ![t] = 0]
    /\ failed' = [failed EXCEPT ![t] = 0]
    /\ fresh' = [fresh EXCEPT ![t] = (client = 0)]
    /\ err' = [err EXCEPT ![t] = "none"]
    /\ result' = [result EXCEPT ![t] = "none"]
    /\ steps' = [steps EXCEPT ![t] = << >>]
    /\ attempt' = [attempt EXCEPT ![t] = 0]
    /\ tmo' = [tmo EXCEPT ![t] = 0]
    /\ writes' = [writes EXCEPT ![t] = 0]
    /\ delay' = [delay EXCEPT ![t] = 0]
    /\ Goto(t, "u_enter")
    /\ args' = [args EXCEPT ![t].op = "none"]
    /\ UNCHANGED <<connVars, envVars, cmd, data, ret, dret, dclient, wclient, res, statTag, limit>>

\* a lock that admits a second holder
LockFreeBroken == TRUE

\* cooker_connection.py:366  asyncio.Lock: acquire() succeeds only when unlocked
LockFree == update_lock = "free"

\* an entry that does not look at the disposed flag
EnterBodyBlind(t) ==
    /\ update_lock' = t
    /\ cycles' = [cycles EXCEPT ![t] = @ + 1]
    /\ steps' = [steps EXCEPT ![t] = << >>]
    /\ Goto(t, "cin")
    /\ UNCHANGED result

\* cooker_connection.py:366-371  lock taken; a disposed connection returns False
EnterBody(t) ==
    IF disposed
    THEN /\ result' = [result EXCEPT ![t] = "false"]
         /\ Goto(t, "idle")
         /\ UNCHANGED <<update_lock, cycles, steps>>
    ELSE /\ update_lock' = t
         /\ cycles' = [cycles EXCEPT ![t] = @ + 1]
         /\ steps' = [steps EXCEPT ![t] = << >>]
         /\ Goto(t, "cin")
         /\ UNCHANGED result

UpdateEnter(t) ==
    /\ pc[t] = "u_enter" /\ MayRun(t)
    /\ IF LockFree THEN EnterBody(t)
       ELSE Goto(t, "u_lock") /\ UNCHANGED <<update_lock, cycles, steps, result>>
    /\ UNCHANGED <<client, auth_ok, last_connect_ok, last_auth_ok, iter, disposed, last_data,
                   status, successes, persistent, envVars, tries, extra, cmd, data, attempt,
                   ret, dret, dclient, wclient, res, err, ops, n0, failed, fresh, statTag, tmo, writes, delay, limit, args>>

AcquireLock(t) ==
    /\ pc[t] = "u_lock" /\ MayRun(t)
    /\ LockFree
    /\ EnterBody(t)
    /\ UNCHANGED <<client, auth_ok, last_connect_ok, last_auth_ok, iter, disposed, last_data,
                   status, successes, persistent, envVars, tries, extra, cmd, data, attempt,
                   ret, dret, dclient, wclient, res, err, ops, n0, failed, fresh, statTag, tmo, writes, delay, limit, args>>

\* ------------------------------------------------- _disconnect()
\* cooker_connection.py:286-293  if self._client: await self._client.disconnect()
Disc(t) ==
    /\ pc[t] = "disc" /\ MayRun(t)
    /\ IF client # 0
       THEN /\ dclient' = [dclient EXCEPT ![t] = client]
            /\ Goto(t, "disc_wait")
            /\ UNCHANGED <<client, auth_ok>>
       ELSE /\ auth_ok' = FALSE
            /\ client' = 0
            /\ Goto(t, dret[t])
            /\ UNCHANGED dclient
    /\ UNCHANGED <<last_connect_ok, last_auth_ok, iter, update_lock, disposed, last_data, status,
                   successes, persistent, envVars, tries, extra, cmd, data, attempt, ret, dret,
                   wclient, res, err, result, callVars>>

\* cooker_connection.py:293-302  the transport disconnect ends (an error is
\* swallowed); finally: _auth_ok = False, _client = None
DiscDone(t) ==
    /\ pc[t] = "disc_wait" /\ MayRun(t)
    /\ linkUp' = linkUp \ {dclient[t]}
    /\ auth_ok' = FALSE
    /\ client' = 0
    /\ Log(t, Did("disconnect"))
    /\ Goto(t, dret[t])
    /\ UNCHANGED <<last_connect_ok, last_auth_ok, iter, update_lock, disposed, last_data, status,
                   successes, persistent, devAccepts, dev, linkAuth, tries, extra, cmd, data,
                   attempt, ret, dret, dclient, wclient, res, err, result, ops, n0, cycles, failed,
                   fresh, statTag, tmo, writes, delay, limit, args>>

\* ------------------------------------------------- _connect_if_need()
\* cooker_connection.py:314-316  a client whose link is down is disconnected first
CinCheck(t) ==
    /\ pc[t] = "cin" /\ MayRun(t)
    /\ IF client # 0 /\ client \notin linkUp
       THEN Goto(t, "disc") /\ dret' = [dret EXCEPT ![t] = "cin2"]
       ELSE Goto(t, "cin2") /\ UNCHANGED dret
    /\ UNCHANGED <<connVars, envVars, tries, extra, cmd, data, attempt, ret, dclient, wclient,
                   res, err, result, callVars>>

\* cooker_connection.py:318-321, 257-268  _connect(): DisposedError on a disposed
\* connection, else await establish_connection(...)
CinConnect(t) ==
    /\ pc[t] = "cin2" /\ MayRun(t)
    /\ IF ~Connected
       THEN IF disposed
            THEN /\ err' = [err EXCEPT ![t] = "Disposed"]
                 /\ dret' = [dret EXCEPT ![t] = "cin_fail"]
                 /\ Goto(t, "disc")
            ELSE Goto(t, "connecting") /\ UNCHANGED <<err, dret>>
       ELSE Goto(t, "cin_auth") /\ UNCHANGED <<err, dret>>
    /\ UNCHANGED <<connVars, envVars, tries, extra, cmd, data, attempt, ret, dclient, wclient,
                   res, result, callVars>>

\* cooker_connection.py:268-272  establish_connection returns a new client object:
\* one that is none of the objects still referenced
ClientsInUse ==
    {client} \cup linkUp \cup linkAuth \cup {dclient[t] : t \in Tasks} \cup {wclient[t] : t \in Tasks}
NewClient == CHOOSE k \in 1 .. (2 * Cardinality(Tasks) + 2) : k \notin ClientsInUse

\* cooker_connection.py:268-280, 322-328  establish_connection and start_notify
\* end: both succeed, or the first fails (no client), or the second fails
ConnectDone(t, outcome) ==
    /\ pc[t] = "connecting" /\ MayRun(t)
    /\ IF outcome = "fail"
       THEN UNCHANGED <<client, linkUp>>
       ELSE /\ client' = NewClient
            /\ linkUp' = linkUp \cup {NewClient}
    /\ IF outcome = "ok"
       THEN /\ last_connect_ok' = TRUE
            /\ Log(t, Did("connect"))
            /\ Goto(t, "cin_auth")
            /\ UNCHANGED <<err, dret>>
       ELSE /\ err' = [err EXCEPT ![t] = "IO"]
            /\ dret' = [dret EXCEPT ![t] = "cin_fail"]
            /\ Goto(t, "disc")
            /\ UNCHANGED <<last_connect_ok, steps>>
    /\ UNCHANGED <<auth_ok, last_auth_ok, iter, update_lock, disposed, last_data, status,
                   successes, persistent, devAccepts, dev, linkAuth, tries, extra, cmd, data, attempt,
                   ret, dclient, wclient, res, result, ops, n0, cycles, failed, fresh, statTag, tmo, writes, delay, limit, args>>

\* cooker_connection.py:324-328  after the disconnect: _last_connect_ok = False; raise ex
CinFail(t) ==
    /\ pc[t] = "cin_fail" /\ MayRun(t)
    /\ last_connect_ok' = FALSE
    /\ RaiseInUpdate(t, err[t])
    /\ UNCHANGED <<client, auth_ok, last_auth_ok, iter, disposed, last_data, status, successes,
                   persistent, envVars, tries, extra, cmd, data, attempt, ret, dret, dclient,
                   wclient, res, result, ops, n0, cycles, steps, fresh, statTag, tmo, writes, delay, limit, args>>

\* cooker_connection.py:282-284  auth() returns super().auth(self._key) without
\* awaiting it: the value is the coroutine object, which is true; no frame is
\* written and nothing is raised
AuthResult == TRUE

\* cooker_connection.py:331-344
CinAuth(t) ==
    /\ pc[t] = "cin_auth" /\ MayRun(t)
    /\ IF ~auth_ok
       THEN /\ auth_ok' = AuthResult
            /\ last_auth_ok' = AuthResult
            /\ IF AuthResult
               THEN Goto(t, "cin_status") /\ UNCHANGED <<err, update_lock, failed>>
               ELSE RaiseInUpdate(t, "Auth")
       ELSE Goto(t, "cin_status") /\ UNCHANGED <<auth_ok, last_auth_ok, err, update_lock, failed>>
    /\ UNCHANGED <<client, last_connect_ok, iter, disposed, last_data, status, successes,
                   persistent, envVars, tries, extra, cmd, data, attempt, ret, dret, dclient,
                   wclient, res, result, ops, n0, cycles, steps, fresh, statTag, tmo, writes, delay, limit, args>>

\* cooker_connection.py:347-350  no cached state yet: self._status = await self.get_status()
CinStatus(t) ==
    /\ pc[t] = "cin_status" /\ MayRun(t)
    /\ IF status = << >>
       THEN Call(t, COMMAND_GET_STATUS, << >>, DefaultRetries, "cin_status_ret")
       ELSE Goto(t, "u_extra") /\ UNCHANGED <<cmd, ret>>
    /\ UNCHANGED <<connVars, envVars, tries, extra, data, attempt, dret, dclient, wclient, res,
                   err, result, callVars>>

\* skycooker.py:172-219 within cooker_connection.py:350-354
CinStatusRet(t) ==
    /\ pc[t] = "cin_status_ret" /\ MayRun(t)
    /\ IF ~res[t].ok
       THEN RaiseInUpdate(t, res[t].err) /\ UNCHANGED status
       ELSE IF ~get_status(res[t].payload).ok
       THEN RaiseInUpdate(t, "Index") /\ UNCHANGED status
       ELSE /\ status' = get_status(res[t].payload).state
            /\ Goto(t, "u_extra")
            /\ UNCHANGED <<err, update_lock, failed>>
    /\ UNCHANGED <<client, auth_ok, last_connect_ok, last_auth_ok, iter, disposed, last_data,
                   successes, persistent, envVars, tries, extra, cmd, data, attempt, ret, dret,
                   dclient, wclient, res, result, ops, n0, cycles, steps, fresh, statTag, tmo, writes, delay, limit, args>>

\* cooker_connection.py:378-380  if extra_action: await extra_action
UExtra(t) ==
    /\ pc[t] = "u_extra" /\ MayRun(t)
    /\ IF extra[t] # "none" THEN Goto(t, "extra_wait") ELSE Goto(t, "u_status")
    /\ UNCHANGED <<connVars, envVars, tries, extra, cmd, data, attempt, ret, dret, dclient,
                   wclient, res, err, result, callVars>>

\* the awaited extra action ends: it returns or it raises
ExtraDone(t) ==
    /\ pc[t] = "extra_wait" /\ MayRun(t)
    /\ IF extra[t] = "ok"
       THEN Log(t, Did("extra")) /\ Goto(t, "u_status") /\ UNCHANGED <<err, update_lock, failed>>
       ELSE RaiseInUpdate(t, "Extra") /\ UNCHANGED steps
    /\ UNCHANGED <<client, auth_ok, last_connect_ok, last_auth_ok, iter, disposed, last_data,
                   status, successes, persistent, envVars, tries, extra, cmd, data, attempt, ret,
                   dret, dclient, wclient, res, result, ops, n0, cycles, fresh, statTag, tmo, writes, delay, limit, args>>

\* cooker_connection.py:384  self._status = await self.get_status()
UStatus(t) ==
    /\ pc[t] = "u_status" /\ MayRun(t)
    /\ Call(t, COMMAND_GET_STATUS, << >>, DefaultRetries, "u_status_ret")
    /\ UNCHANGED <<connVars, envVars, tries, extra, data, attempt, dret, dclient, wclient, res,
                   err, result, callVars>>

\* cooker_connection.py:356-359  _disconnect_if_need
NeedDisconnect == ~persistent

\* skycooker.py:172-219, cooker_connection.py:384-391
UStatusRet(t) ==
    /\ pc[t] = "u_status_ret" /\ MayRun(t)
    /\ IF ~res[t].ok
       THEN RaiseInUpdate(t, res[t].err) /\ UNCHANGED <<status, dret>>
       ELSE IF ~get_status(res[t].payload).ok
       THEN RaiseInUpdate(t, "Index") /\ UNCHANGED <<status, dret>>
       ELSE /\ status' = get_status(res[t].payload).state
            /\ IF NeedDisconnect
               THEN Goto(t, "disc") /\ dret' = [dret EXCEPT ![t] = "u_done"]
               ELSE Goto(t, "u_done") /\ UNCHANGED dret
            /\ UNCHANGED <<err, update_lock, failed>>
    /\ UNCHANGED <<client, auth_ok, last_connect_ok, last_auth_ok, iter, disposed, last_data,
                   successes, persistent, envVars, tries, extra, cmd, data, attempt, ret,
                   dclient, wclient, res, result, ops, n0, cycles, steps, fresh, statTag, tmo, writes, delay, limit, args>>

\* cooker_connection.py:392-394  add_stat(True); return True (the lock is released)
UDone(t) ==
    /\ pc[t] = "u_done" /\ MayRun(t)
    /\ successes' = add_stat(successes, TRUE)
    /\ statTag' = TagStat(statTag, <<t, ops[t]>>)
    /\ Log(t, Did("record"))
    /\ update_lock' = "free"
    /\ result' = [result EXCEPT ![t] = "true"]
    /\ Goto(t, "idle")
    /\ DropFrame(t)
    /\ UNCHANGED <<client, auth_ok, last_connect_ok, last_auth_ok, iter, disposed, last_data,
                   status, persistent, envVars, tries, extra, err, ops, n0, cycles, failed,
                   fresh, limit, args, attempt, tmo, writes, delay>>

\* cooker_connection.py:396-398  except Exception: await self.disconnect()
UExc(t) ==
    /\ pc[t] = "u_exc" /\ MayRun(t)
    /\ dret' = [dret EXCEPT ![t] = "u_exc2"]
    /\ Goto(t, "disc")
    /\ UNCHANGED <<connVars, envVars, tries, extra, cmd, data, attempt, ret, dclient, wclient,
                   res, err, result, callVars>>

\* a handler that also leaves timeouts unrecorded
NoRetryErrorWide(e) == e \in {"Auth", "Timeout"}

\* cooker_connection.py:399  type(ex) == AuthError
NoRetryError(e) == e = "Auth"

\* a retry test that is off by one
ShouldRetryEager(n, x) == n > 0 /\ x = "none"

\* cooker_connection.py:403  tries > 1 and extra_action == None
ShouldRetry(n, x) == n > 1 /\ x = "none"

\* cooker_connection.py:399-410
UExc2(t) ==
    /\ pc[t] = "u_exc2" /\ MayRun(t)
    /\ IF NoRetryError(err[t])
       THEN /\ result' = [result EXCEPT ![t] = "false"]
            /\ Goto(t, "idle")
            /\ UNCHANGED <<successes, statTag>>
       ELSE /\ successes' = add_stat(successes, FALSE)
            /\ statTag' = TagStat(statTag, <<t, ops[t]>>)
            /\ IF ShouldRetry(tries[t], extra[t])
               THEN Goto(t, "u_sleep") /\ UNCHANGED result
               ELSE /\ result' = [result EXCEPT ![t] = "false"]
                    /\ Goto(t, "idle")
    /\ DropLocals(t)
    /\ UNCHANGED <<client, auth_ok, last_connect_ok, last_auth_ok, iter, update_lock, disposed,
                   last_data, status, persistent, envVars, tries, extra, err, ops, n0, cycles,
                   failed, steps, fresh, limit, args>>

\* cooker_connection.py:405-406  the sleep ends: return await self.update(tries = tries - 1, ...)
URetry(t) ==
    /\ pc[t] = "u_sleep" /\ MayRun(t)
    /\ tries' = [tries EXCEPT ![t] = @ - 1]
    /\ Goto(t, "u_enter")
    /\ UNCHANGED <<connVars, envVars, extra, cmd, data, attempt, ret, dret, dclient, wclient,
                   res, err, result, callVars>>

\* ------------------------------------------------------------ command()
Ok(p) == [ok |-> TRUE, payload |-> p, err |-> "none"]
Err(e) == [ok |-> FALSE, payload |-> << >>, err |-> e]

\* a counter that wraps one value early
NextIterShort(i) == (i + 1) % (SeqMod - 1)

\* cooker_connection.py:166  self._iter = (self._iter + 1) % 256
NextIter(i) == (i + 1) % SeqMod

\* cooker_connection.py:166  the counter after n commands that passed their
\* preconditions, starting at i
RECURSIVE Advance(_, _)
Advance(i, n) == IF n = 0 THEN i ELSE Advance(NextIter(i), n - 1)

\* the counter after 16, 64 and 256 such commands, as tables over the start value
AdvanceBy16 == [i \in 0 .. (SeqMod - 1) |-> Advance(i, 16)]
AdvanceBy64 == [i \in 0 .. (SeqMod - 1) |-> AdvanceBy16[AdvanceBy16[AdvanceBy16[AdvanceBy16[i]]]]]
AdvanceBy256 == [i \in 0 .. (SeqMod - 1) |-> AdvanceBy64[AdvanceBy64[AdvanceBy64[AdvanceBy64[i]]]]]

\* the timeouts of the dispatcher's static table, in tenths of a second:
\* 5.0 s for get-version and 3.0 s for authenticate
COMMAND_TIMEOUTS == (COMMAND_GET_VERSION :> 50) @@ (COMMAND_AUTH :> 30)

\* the table's "default" entry, 1.5 s
DEFAULT_TIMEOUT == 15

\* a lookup that lets the table win over the caller's argument
TimeoutForTable(command, timeout) ==
    IF command \in DOMAIN COMMAND_TIMEOUTS
    THEN COMMAND_TIMEOUTS[command]
    ELSE IF timeout = << >> THEN DEFAULT_TIMEOUT ELSE timeout[1]

\* cooker_connection.py:162-164  if timeout is None:
\*     timeout = COMMAND_TIMEOUTS.get(command, COMMAND_TIMEOUTS["default"])
TimeoutFor(command, timeout) ==
    IF timeout = << >>
    THEN IF command \in DOMAIN COMMAND_TIMEOUTS
         THEN COMMAND_TIMEOUTS[command]
         ELSE DEFAULT_TIMEOUT
    ELSE timeout[1]

\* cooker_connection.py:155-175  preconditions, sequence byte, frame; then the
\* first pass of the attempt loop up to the write
CmdBegin(t) ==
    /\ pc[t] = "cmd_begin" /\ MayRun(t)
    /\ IF disposed
       THEN /\ res' = [res EXCEPT ![t] = Err("Disposed")]
            /\ Goto(t, ret[t])
            /\ UNCHANGED <<iter, data, attempt, last_data, wclient, steps, tmo, writes, delay,
                           cmd>>
       ELSE IF ~Connected
       THEN /\ res' = [res EXCEPT ![t] = Err("IO")]
            /\ Goto(t, ret[t])
            /\ UNCHANGED <<iter, data, attempt, last_data, wclient, steps, tmo, writes, delay,
                           cmd>>
       ELSE /\ cmd' = [cmd EXCEPT ![t].timeout = <<TimeoutFor(cmd[t].command, @)>>]
            /\ iter' = NextIter(iter)
            /\ data' = [data EXCEPT ![t] = Frame(NextIter(iter), cmd[t].command, cmd[t].params)]
            /\ attempt' = [attempt EXCEPT ![t] = 1]
            /\ last_data' = << >>
            /\ wclient' = [wclient EXCEPT ![t] = 0]
            /\ tmo' = [tmo EXCEPT ![t] = 0]
            /\ writes' = [writes EXCEPT ![t] = 0]
            /\ delay' = [delay EXCEPT ![t] = 0]
            /\ Log(t, Sent(cmd[t].command))
            /\ Goto(t, "cmd_write")
            /\ UNCHANGED res
    /\ UNCHANGED <<client, auth_ok, last_connect_ok, last_auth_ok, update_lock, disposed, status,
                   successes, persistent, envVars, tries, extra, ret, dret, dclient, err,
                   result, ops, n0, cycles, failed, fresh, statTag, limit, args>>

\* a loop test that admits one attempt more
MayRetryLate(att, r) == att <= r + 1

\* cooker_connection.py:173, 188, 200, 207  attempt <= retries
MayRetry(att, r) == att <= r

\* cooker_connection.py:192, 186-211  what a failed attempt raises when no retry
\* is left: a wrong command id raises IOError("Invalid response command")
Raised(e) == IF e = "Mismatch" THEN "IO" ELSE e

\* cooker_connection.py:190, 202, 209  asyncio.sleep(0.2 * attempt) after a wrong
\* command id, 0.5 * attempt after a timeout, 0.3 * attempt after another error;
\* in tenths of a second
Backoff(e, att) == att * (IF e = "Mismatch" THEN 2 ELSE IF e = "Timeout" THEN 5 ELSE 3)

\* a loop that gives up at the first failed attempt
AttemptFailedFinal(t, e) ==
    /\ tmo' = [tmo EXCEPT ![t] = IF e = "Timeout" THEN @ + 1 ELSE @]
    /\ res' = [res EXCEPT ![t] = Err(Raised(e))]
    /\ Goto(t, ret[t])
    /\ UNCHANGED delay

\* cooker_connection.py:186-192, 198-211  the attempt failed with error e: sleep and
\* go round the loop again, or raise to the caller of command()
AttemptFailed(t, e) ==
    /\ tmo' = [tmo EXCEPT ![t] = IF e = "Timeout" THEN @ + 1 ELSE @]
    /\ IF MayRetry(attempt[t], cmd[t].retries)
       THEN /\ delay' = [delay EXCEPT ![t] = Backoff(e, attempt[t])]
            /\ Goto(t, "cmd_sleep")
            /\ UNCHANGED res
       ELSE /\ res' = [res EXCEPT ![t] = Err(Raised(e))]
            /\ Goto(t, ret[t])
            /\ UNCHANGED delay

\* cooker_connection.py:179  await self._client.write_gatt_char(self.UUID_TX, data)
CmdWrite(t) ==
    /\ pc[t] = "cmd_write" /\ MayRun(t)
    /\ IF Connected
       THEN /\ wclient' = [wclient EXCEPT ![t] = client]
            /\ writes' = [writes EXCEPT ![t] = @ + 1]
            /\ Goto(t, "cmd_wait")
            /\ UNCHANGED <<res, tmo, delay>>
       ELSE AttemptFailed(t, "IO") /\ UNCHANGED <<wclient, writes>>
    /\ UNCHANGED <<connVars, envVars, tries, extra, cmd, data, attempt, ret, dret, dclient, err,
                   result, recVars>>

\* cooker_connection.py:233  r[1] == self._iter
SeqMatches(r) == r[2] = iter

\* cooker_connection.py:215-247 and 183-196  one wake-up of the polling loop;
\* expired: monotonic() >= timeout_time at the end of this pass
CmdPoll(t, expired) ==
    /\ pc[t] = "cmd_wait" /\ MayRun(t)
    /\ IF last_data = << >>
       THEN /\ expired
            /\ AttemptFailed(t, "Timeout")
            /\ UNCHANGED <<last_data, linkAuth>>
       ELSE IF BadMagic(last_data)
       THEN /\ ~expired
            /\ AttemptFailed(t, "IO")
            /\ UNCHANGED <<last_data, linkAuth>>
       ELSE IF SeqMatches(last_data)
       THEN /\ ~expired
            /\ IF last_data[3] # cmd[t].command
               THEN AttemptFailed(t, "Mismatch") /\ UNCHANGED linkAuth
               ELSE /\ res' = [res EXCEPT ![t] = Ok(Clean(last_data))]
                    /\ Goto(t, ret[t])
                    /\ UNCHANGED <<tmo, delay>>
                    /\ linkAuth' = IF /\ cmd[t].command = COMMAND_AUTH
                                      /\ Clean(last_data) # << >>
                                      /\ Clean(last_data)[1] # 0
                                   THEN linkAuth \cup {wclient[t]} ELSE linkAuth
            /\ UNCHANGED last_data
       ELSE /\ last_data' = << >>
            /\ IF expired THEN AttemptFailed(t, "Timeout") ELSE UNCHANGED <<pc, res, tmo, delay>>
            /\ UNCHANGED linkAuth
    /\ UNCHANGED <<client, auth_ok, last_connect_ok, last_auth_ok, iter, update_lock, disposed,
                   status, successes, persistent, linkUp, devAccepts, dev, tries, extra, cmd,
                   data, attempt, ret, dret, dclient, wclient, err, result, recVars, writes>>

\* a retry that leaves the inbound slot as it is
CmdRetryKeep(t) ==
    /\ pc[t] = "cmd_sleep" /\ MayRun(t)
    /\ attempt' = [attempt EXCEPT ![t] = @ + 1]
    /\ Goto(t, "cmd_write")
    /\ UNCHANGED <<connVars, envVars, tries, extra, cmd, data, ret, dret,
                   dclient, wclient, res, err, result, callVars>>

\* cooker_connection.py:173-175  the back-off sleep ends: attempt += 1,
\* self._last_data = None, and the same frame is written again
CmdRetry(t) ==
    /\ pc[t] = "cmd_sleep" /\ MayRun(t)
    /\ attempt' = [attempt EXCEPT ![t] = @ + 1]
    /\ last_data' = << >>
    /\ Goto(t, "cmd_write")
    /\ UNCHANGED <<client, auth_ok, last_connect_ok, last_auth_ok, iter, update_lock, disposed,
                   status, successes, persistent, envVars, tries, extra, cmd, data, ret, dret,
                   dclient, wclient, res, err, result, callVars>>

\* -------------------------------------------------- control operations
\* skycooker.py:123, 136, 158, 225, 233, 247, 255  if r[0] != 1: raise SkyCookerError
Acked(r) == r.ok /\ r.payload # << >> /\ r.payload[1] = 1

\* a control operation starts: no update() call of this task is running
BeginOp(t, r) ==
    /\ pc[t] = "idle" /\ MayRun(t)
    /\ ops[t] < limit[t]
    /\ ops' = [ops EXCEPT ![t] = @ + 1]
    /\ result' = [result EXCEPT ![t] = r]
    /\ tries' = [tries EXCEPT ![t] = 0]
    /\ extra' = [extra EXCEPT ![t] = "none"]
    /\ err' = [err EXCEPT ![t] = "none"]
    /\ n0' = [n0 EXCEPT ![t] = 0]
    /\ cycles' = [cycles EXCEPT ![t] = 0]
    /\ failed' = [failed EXCEPT ![t] = 0]
    /\ steps' = [steps EXCEPT ![t] = << >>]
    /\ fresh' = [fresh EXCEPT ![t] = FALSE]
    /\ attempt' = [attempt EXCEPT ![t] = 0]
    /\ tmo' = [tmo EXCEPT ![t] = 0]
    /\ writes' = [writes EXCEPT ![t] = 0]
    /\ delay' = [delay EXCEPT ![t] = 0]

StartOp(t) == BeginOp(t, "none")

\* switch.py:115-119 -> skycooker.py:251-254  set_post_heat(True): a command
\* issued by the entity itself, outside update()
StartPostHeat(t) ==
    /\ StartOp(t)
    /\ Call(t, COMMAND_SET_POST_HEAT, <<1>>, DefaultRetries, "ctl_ret")
    /\ args' = [args EXCEPT ![t] = NoArgs]
    /\ UNCHANGED <<connVars, envVars, data, dret, dclient, wclient, res, statTag, limit>>

\* skycooker.py:255-257  the control operation ends: done, or a named error
CtlRet(t) ==
    /\ pc[t] = "ctl_ret" /\ MayRun(t)
    /\ result' = [result EXCEPT ![t] = IF Acked(res[t]) THEN "ok" ELSE "error"]
    /\ Goto(t, "idle")
    /\ DropLocals(t)
    /\ UNCHANGED <<connVars, envVars, tries, extra, err, recVars>>

\* cooker_connection.py:442-444 -> skycooker.py:144-157  _set_target_state(mode):
\* set_main_mode is turn_off for mode 0xFF, else command 0x05 with the packed mode
StartSetState(t, mode) ==
    /\ StartOp(t)
    /\ IF mode = MODE_OFF
       THEN Call(t, COMMAND_TURN_OFF, << >>, DefaultRetries, "ctl_main_ret")
       ELSE Call(t, COMMAND_SET_MAIN_MODE, <<mode, 0, 0, 0, 0, 0>>, DefaultRetries, "ctl_main_ret")
    /\ args' = [args EXCEPT ![t] = NoArgs]
    /\ UNCHANGED <<connVars, envVars, data, dret, dclient, wclient, res, statTag, limit>>

\* cooker_connection.py:444-446  set_main_mode raised, or: await self.update()
CtlMainRet(t) ==
    /\ pc[t] = "ctl_main_ret" /\ MayRun(t)
    /\ IF Acked(res[t])
       THEN /\ tries' = [tries EXCEPT ![t] = MAX_TRIES]
            /\ extra' = [extra EXCEPT ![t] = "none"]
            /\ n0' = [n0 EXCEPT ![t] = MAX_TRIES]
            /\ cycles' = [cycles EXCEPT ![t] = 0]
            /\ failed' = [failed EXCEPT ![t] = 0]
            /\ fresh' = [fresh EXCEPT ![t] = (client = 0)]
            /\ err' = [err EXCEPT ![t] = "none"]
            /\ steps' = [steps EXCEPT ![t] = << >>]
            /\ Goto(t, "u_enter")
            /\ UNCHANGED result
       ELSE /\ result' = [result EXCEPT ![t] = "error"]
            /\ Goto(t, "idle")
            /\ UNCHANGED <<tries, extra, n0, cycles, failed, fresh, err, steps>>
    /\ DropLocals(t)
    /\ UNCHANGED <<connVars, envVars, ops, statTag, limit, args>>

\* ------------------------------------------------- target operations
\* const.py:83-97  MODE_NAMES; the strings stand for the Russian names, in the
\* order of the dictionary
MODE_NAMES ==
    [m \in (0 .. 11) \cup {MODE_OFF} |->
        CASE m = 0 -> "SlowCook" [] m = 1 -> "Stew" [] m = 2 -> "Bake" [] m = 3 -> "Steam"
          [] m = 4 -> "Yogurt" [] m = 5 -> "Multicook" [] m = 6 -> "Soup" [] m = 7 -> "Pasta"
          [] m = 8 -> "Rice" [] m = 9 -> "Bread" [] m = 10 -> "Dessert" [] m = 11 -> "KeepWarm"
          [] OTHER -> "Off"]

\* a clamp that lets values below the minimum through
limit_temp_open(temp) ==
    IF temp # << >> /\ temp[1] > MAX_TEMPERATURE THEN <<MAX_TEMPERATURE>> ELSE temp

\* cooker_connection.py:418-426  limit_temp; << >> is None
limit_temp(temp) ==
    IF temp # << >> /\ temp[1] > MAX_TEMPERATURE THEN <<MAX_TEMPERATURE>>
    ELSE IF temp # << >> /\ temp[1] < MIN_TEMPERATURE THEN <<MIN_TEMPERATURE>>
    ELSE temp

\* cooker_connection.py:428-433  get_mode_name; << >> is None
get_mode_name(mode_id) ==
    IF mode_id = << >> THEN "Mode None"
    ELSE IF mode_id[1] = MODE_OFF THEN "Off"
    ELSE IF mode_id[1] \in DOMAIN MODE_NAMES THEN MODE_NAMES[mode_id[1]]
    ELSE "Mode " \o ToString(mode_id[1])

\* cooker_connection.py:474-479  target_temp
target_temp == IF status # << >> THEN <<status[1].target_temperature>> ELSE << >>

\* cooker_connection.py:481-486  target_mode
target_mode == IF status # << >> /\ status[1].power THEN <<status[1].mode>> ELSE << >>

\* cooker_connection.py:488-491  target_mode_str
target_mode_str == get_mode_name(target_mode)

\* a lookup that falls back to multicook for a name it does not know
ModeByNameLax(name) ==
    IF \E m \in DOMAIN MODE_NAMES : MODE_NAMES[m] = name
    THEN <<CHOOSE m \in DOMAIN MODE_NAMES : MODE_NAMES[m] = name>>
    ELSE <<MODE_MULTICOOK>>

\* cooker_connection.py:505-509, 529-534  the first id of MODE_NAMES with that name
ModeByName(name) ==
    IF \E m \in DOMAIN MODE_NAMES : MODE_NAMES[m] = name
    THEN <<CHOOSE m \in DOMAIN MODE_NAMES :
              /\ MODE_NAMES[m] = name
              /\ \A k \in DOMAIN MODE_NAMES : (MODE_NAMES[k] = name /\ k # m) => m < k>>
    ELSE << >>

\* skycooker.py:152  pack("B", ...) takes 0..255 and raises struct.error otherwise
FitsByte(v) == v \in 0 .. 255

\* cooker_connection.py:442-444 -> skycooker.py:144-158  _set_target_state: await
\* set_main_mode(mode, temperature): turn_off() for 0xFF, else command 0x05 with
\* the six packed bytes; a value that does not fit a byte raises before any call
set_main_mode(t, mode, temperature) ==
    IF mode = MODE_OFF
    THEN Call(t, COMMAND_TURN_OFF, << >>, DefaultRetries, "ctl_main_ret")
    ELSE IF ~(FitsByte(mode) /\ FitsByte(temperature))
    THEN UNCHANGED <<pc, cmd, ret>>
    ELSE Call(t, COMMAND_SET_MAIN_MODE, <<mode, 0, temperature, 0, 0, 0>>,
              DefaultRetries, "ctl_main_ret")

\* a choice of mode that ignores the name given
TempModeCached(name) ==
    IF target_mode = << >> THEN MODE_MULTICOOK ELSE target_mode[1]

\* cooker_connection.py:503-517  the mode set_target_temp asks for: the id of the
\* name when one is given and known, else the cached mode, else multicook
TempMode(name) ==
    LET named == IF name # "" /\ ModeByName(name) # << >> THEN ModeByName(name) ELSE target_mode
    IN  IF named = << >> THEN MODE_MULTICOOK ELSE named[1]

\* cooker_connection.py:498-519  set_target_temp(temp, name)
StartSetTargetTemp(t, temp, name) ==
    LET same == (<<temp>> = target_temp)
        mode == TempMode(name)
        temperature == limit_temp(<<temp>>)[1]
        raises == ~same /\ mode # MODE_OFF /\ ~(FitsByte(mode) /\ FitsByte(temperature))
    IN  /\ BeginOp(t, IF raises THEN "error" ELSE "none")
        /\ args' = [args EXCEPT ![t] = [op |-> "temp", temp |-> temp, name |-> name,
                                        wait |-> << >>]]
        /\ IF same THEN UNCHANGED <<pc, cmd, ret>> ELSE set_main_mode(t, mode, temperature)
        /\ UNCHANGED <<connVars, envVars, data, dret, dclient, wclient, res, statTag, limit>>

\* cooker_connection.py:521-540  set_target_mode(name)
StartSetTargetMode(t, name) ==
    LET same == (name = target_mode_str)
        mode == ModeByName(name)
    IN  /\ BeginOp(t, "none")
        /\ args' = [args EXCEPT ![t] = [op |-> "mode", temp |-> 0, name |-> name,
                                        wait |-> << >>]]
        /\ IF same \/ mode = << >> THEN UNCHANGED <<pc, cmd, ret>>
           ELSE set_main_mode(t, mode[1], 0)
        /\ UNCHANGED <<connVars, envVars, data, dret, dclient, wclient, res, statTag, limit>>

\* skycooker.py:239-245  total_hours, total_minutes of set_delay_time: the sums,
\* with one hour carried when the minutes reach 60; pack("BB", ...)
DelayData(wait_hours, wait_minutes, hours, minutes) ==
    IF wait_minutes + minutes >= 60
    THEN <<wait_hours + hours + 1, wait_minutes + minutes - 60>>
    ELSE <<wait_hours + hours, wait_minutes + minutes>>

\* number.py:186-189, 219-222 -> skycooker.py:237-249  set_delay_time(wait_hours,
\* wait_minutes, hours, minutes) with the cached cooking time; no cached state,
\* or a total that does not fit a byte, raises before any call
StartSetDelay(t, wait_hours, wait_minutes) ==
    LET hm == IF status = << >> THEN <<0, 0>> ELSE <<status[1].hours, status[1].minutes>>
        d == DelayData(wait_hours, wait_minutes, hm[1], hm[2])
        raises == status = << >> \/ ~(FitsByte(d[1]) /\ FitsByte(d[2]))
    IN  /\ BeginOp(t, IF raises THEN "error" ELSE "none")
        /\ args' = [args EXCEPT ![t] = [op |-> "delay", temp |-> 0, name |-> "",
                                        wait |-> <<wait_hours, wait_minutes, hm[1], hm[2]>>]]
        /\ IF raises THEN UNCHANGED <<pc, cmd, ret>>
           ELSE Call(t, COMMAND_SET_DELAY_TIME, d, DefaultRetries, "ctl_ret")
        /\ UNCHANGED <<connVars, envVars, data, dret, dclient, wclient, res, statTag, limit>>

\* cooker_connection.py:151  a caller awaits command(c, retries = r) itself
\* (as test_connection does at line 89)
StartCommand(t, c, r) ==
    /\ StartOp(t)
    /\ Call(t, c, << >>, r, "cmd_ret")
    /\ args' = [args EXCEPT ![t] = NoArgs]
    /\ UNCHANGED <<connVars, envVars, data, dret, dclient, wclient, res, statTag, limit>>

\* tests/test_timeout_fixes.py:83  command(COMMAND_GET_STATUS, timeout=2.0,
\* retries=1): a direct call that names its response window
StartCommandTimed(t, c, timeout) ==
    /\ StartOp(t)
    /\ cmd' = [cmd EXCEPT ![t] = [command |-> c, params |-> << >>, retries |-> 1,
                                  timeout |-> <<timeout>>]]
    /\ ret' = [ret EXCEPT ![t] = "cmd_ret"]
    /\ pc' = [pc EXCEPT ![t] = "cmd_begin"]
    /\ args' = [args EXCEPT ![t] = NoArgs]
    /\ UNCHANGED <<connVars, envVars, data, dret, dclient, wclient, res, statTag, limit>>

\* cooker_connection.py:194, 213  the call has returned or raised to that caller
CmdRet(t) ==
    /\ pc[t] = "cmd_ret" /\ MayRun(t)
    /\ result' = [result EXCEPT ![t] = IF res[t].ok THEN "ok" ELSE "error"]
    /\ Goto(t, "idle")
    /\ DropLocals(t)
    /\ UNCHANGED <<connVars, envVars, tries, extra, err, recVars>>

\* ------------------------------------------------ transport and device
\* task t has written its frame and its command() call has not ended
InFlight(t) == pc[t] \in {"cmd_write", "cmd_wait", "cmd_sleep"} /\ wclient[t] # 0

\* the sequence bytes the device may echo to t: that of t's frame, or the one
\* before it (a late answer to the previous command)
EchoSeqs(t) ==
    IF data[t] = << >> THEN {} ELSE {data[t][2], (data[t][2] + SeqMod - 1) % SeqMod}

\* cooker_connection.py:249-251  _rx_callback: a notification overwrites the slot.
\* The device answers frames it was sent, over a link that is up; a device that
\* does not accept the key answers nothing but authenticate.
Deliver(t, s, p) ==
    /\ Quiet
    /\ InFlight(t)
    /\ wclient[t] \in linkUp
    /\ devAccepts \/ cmd[t].command = COMMAND_AUTH
    /\ last_data # Frame(s, cmd[t].command, p)
    /\ last_data' = Frame(s, cmd[t].command, p)
    /\ UNCHANGED <<client, auth_ok, last_connect_ok, last_auth_ok, iter, update_lock, disposed,
                   status, successes, persistent, envVars, taskVars, callVars>>

\* skycooker.py:118-166, 221-257  the commands that change the device
Mutating(c) ==
    c \in {COMMAND_TURN_OFF, COMMAND_SET_MAIN_MODE, COMMAND_SET_POST_HEAT, COMMAND_SET_DELAY_TIME}

\* the status payload of the device as it is: mode byte, cooking time, raw wait
\* fields, status 5 (cooking) when on and 0 when off
DeviceStatus ==
    StatusPayload(dev.mode, dev.hours, dev.minutes, dev.wait_hours, dev.wait_minutes,
                  0, IF dev.on THEN 5 ELSE 0)

\* what the device holds after it carried out the frame f
DeviceAfter(f) ==
    IF f[3] = COMMAND_SET_MAIN_MODE
    THEN [dev EXCEPT !.mode = f[4], !.hours = f[7], !.minutes = f[8], !.on = TRUE]
    ELSE IF f[3] = COMMAND_TURN_OFF THEN [dev EXCEPT !.on = FALSE]
    ELSE IF f[3] = COMMAND_SET_DELAY_TIME
    THEN [dev EXCEPT !.wait_hours = f[4], !.wait_minutes = f[5]]
    ELSE dev

\* cooker_connection.py:249-251  the notification of a device that keeps what it
\* is sent: it carries out the frame of t and answers 1, or refuses and answers
\* 0; it answers get-status with what it holds
DeliverDev(t, accepted) ==
    LET c == cmd[t].command
        p == IF c = COMMAND_GET_STATUS THEN DeviceStatus
             ELSE IF accepted THEN <<1>> ELSE <<0>>
    IN  /\ Quiet
        /\ InFlight(t)
        /\ wclient[t] \in linkUp
        /\ accepted \/ Mutating(c)
        /\ last_data # Frame(data[t][2], c, p)
        /\ last_data' = Frame(data[t][2], c, p)
        /\ dev' = IF accepted THEN DeviceAfter(data[t]) ELSE dev
        /\ UNCHANGED <<client, auth_ok, last_connect_ok, last_auth_ok, iter, update_lock, disposed,
                       status, successes, persistent, linkUp, devAccepts, linkAuth, taskVars,
                       callVars>>

\* a command id that is not c
ForeignCommand(c) == IF c = COMMAND_GET_VERSION THEN COMMAND_GET_STATUS ELSE COMMAND_GET_VERSION

\* cooker_connection.py:249-251  a well-formed frame that answers another command
DeliverForeign(t, s) ==
    /\ Quiet
    /\ InFlight(t)
    /\ wclient[t] \in linkUp
    /\ last_data # Frame(s, ForeignCommand(cmd[t].command), <<1>>)
    /\ last_data' = Frame(s, ForeignCommand(cmd[t].command), <<1>>)
    /\ UNCHANGED <<client, auth_ok, last_connect_ok, last_auth_ok, iter, update_lock, disposed,
                   status, successes, persistent, envVars, taskVars, callVars>>

\* cooker_connection.py:249-251  a notification that is not a frame
DeliverGarbage(t) ==
    /\ Quiet
    /\ InFlight(t)
    /\ wclient[t] \in linkUp
    /\ last_data # Garbage
    /\ last_data' = Garbage
    /\ UNCHANGED <<client, auth_ok, last_connect_ok, last_auth_ok, iter, update_lock, disposed,
                   status, successes, persistent, envVars, taskVars, callVars>>

\* the transport reports the loss of the link: is_connected becomes False
LinkLoss ==
    /\ Quiet
    /\ Connected
    /\ linkUp' = linkUp \ {client}
    /\ UNCHANGED <<connVars, devAccepts, dev, linkAuth, taskVars, callVars>>

\* cooker_connection.py:452-458  stop(): self._disconnect() only creates a
\* coroutine that is never awaited; self._disposed = True
Stop ==
    /\ ~disposed
    /\ disposed' = TRUE
    /\ UNCHANGED <<client, auth_ok, last_connect_ok, last_auth_ok, iter, update_lock, last_data,
                   status, successes, persistent, envVars, taskVars, callVars>>

\* ----------------------------------------------------- specification
TriesInputs == 1 .. MAX_TRIES
ExtraInputs == {"none", "ok", "fail"}
ModeInputs == {MODE_MULTICOOK, MODE_OFF}
ConnectOutcomes == {"ok", "fail", "notify_fail"}

\* the steps of a task inside update(), command() and the control operations
TaskStep(t) ==
    \/ UpdateEnter(t)
    \/ Disc(t)
    \/ DiscDone(t)
    \/ CinCheck(t)
    \/ CinConnect(t)
    \/ CinAuth(t)
    \/ CinStatus(t)
    \/ CinStatusRet(t)
    \/ UExtra(t)
    \/ UStatus(t)
    \/ UStatusRet(t)
    \/ UDone(t)
    \/ UExc(t)
    \/ UExc2(t)
    \/ CmdBegin(t)
    \/ CmdWrite(t)
    \/ CmdRetry(t)
    \/ CtlRet(t)
    \/ CtlMainRet(t)

\* One host task at a time: every input of update(), every outcome of the
\* transport, every answer of the device, stop() at any instant.
Next ==
    \/ \E t \in Tasks, n \in TriesInputs, x \in ExtraInputs : StartUpdate(t, n, x)
    \/ \E t \in Tasks : StartPostHeat(t)
    \/ \E t \in Tasks, m \in ModeInputs : StartSetState(t, m)
    \/ \E t \in Tasks : TaskStep(t)
    \/ \E t \in Tasks : CinFail(t)
    \/ \E t \in Tasks : URetry(t)
    \/ \E t \in Tasks : ExtraDone(t)
    \/ \E t \in Tasks, o \in ConnectOutcomes : ConnectDone(t, o)
    \/ \E t \in Tasks, e \in BOOLEAN : CmdPoll(t, e)
    \/ \E t \in Tasks : \E s \in EchoSeqs(t), p \in PayloadsFor(cmd[t].command, devAccepts) :
           Deliver(t, s, p)
    \/ \E t \in Tasks : DeliverGarbage(t)
    \/ LinkLoss
    \/ Stop

Spec == Init /\ [][Next]_vars

\* cooker_connection.py:215-247  a pass of the polling loop that ends the wait:
\* a matching frame, a frame with bad markers, or monotonic() >= timeout_time
WaitEnds(t) == \E e \in BOOLEAN : CmdPoll(t, e) /\ pc'[t] # "cmd_wait"

\* the event loop resumes a task that can go on: its synchronous code runs, an
\* awaited transport call or sleep ends, the deadline of a wait passes
TaskProgress(t) ==
    \/ TaskStep(t)
    \/ CinFail(t)
    \/ URetry(t)
    \/ ExtraDone(t)
    \/ \E o \in ConnectOutcomes : ConnectDone(t, o)
    \/ WaitEnds(t)

\* Spec under fair scheduling of the tasks and their timers.  Nothing is
\* assumed of the callers, the device, the link or stop().
SpecLive == Spec /\ \A t \in Tasks : WF_vars(TaskProgress(t))

\* Two host tasks on one persistent connection to a paired device: the poll
\* and a service call, each starting update() or a control operation.
InitPar ==
    /\ Constructed
    /\ dev = NoDev
    /\ persistent
    /\ devAccepts
    /\ limit = [t \in Tasks |-> IF t = "a" THEN MaxOpsA ELSE MaxOpsB]

ParTries == 1 .. MaxTriesPar
ParPayloadsFor(command) ==
    IF command = COMMAND_GET_STATUS THEN {StatusA, StatusShort} ELSE {<<1>>}

NextPar ==
    \/ \E t \in Tasks, n \in ParTries : StartUpdate(t, n, "none")
    \/ \E t \in Tasks : StartPostHeat(t)
    \/ \E t \in Tasks : StartSetState(t, MODE_MULTICOOK)
    \/ \E t \in Tasks : TaskStep(t)
    \/ \E t \in Tasks : CinFail(t)
    \/ \E t \in Tasks : URetry(t)
    \/ \E t \in Tasks : AcquireLock(t)
    \/ \E t \in Tasks, o \in {"ok", "fail"} : ConnectDone(t, o)
    \/ \E t \in Tasks, e \in BOOLEAN : CmdPoll(t, e)
    \/ \E t \in Tasks : \E s \in EchoSeqs(t), p \in ParPayloadsFor(cmd[t].command) :
           Deliver(t, s, p)

SpecPar == InitPar /\ [][NextPar]_vars

\* Two host tasks on one persistent connection to a paired device that is in
\* range: the transport connects, and the device answers every frame it is sent.
InitCtl ==
    /\ Constructed
    /\ dev = NoDev
    /\ persistent
    /\ devAccepts
    /\ limit = [t \in Tasks |-> IF t = "a" THEN MaxCtlA ELSE MaxCtlB]

CtlPayloadsFor(command) ==
    IF command = COMMAND_GET_STATUS THEN {StatusA} ELSE {<<1>>}

NextCtl ==
    \/ \E t \in Tasks : StartUpdate(t, TriesCtl, "none")
    \/ \E t \in Tasks : StartPostHeat(t)
    \/ \E t \in Tasks : StartSetState(t, MODE_MULTICOOK)
    \/ \E t \in Tasks : TaskStep(t)
    \/ \E t \in Tasks : URetry(t)
    \/ \E t \in Tasks : AcquireLock(t)
    \/ \E t \in Tasks : ConnectDone(t, "ok")
    \/ \E t \in Tasks, e \in BOOLEAN : CmdPoll(t, e)
    \/ \E t \in Tasks : \E p \in CtlPayloadsFor(cmd[t].command) : Deliver(t, data[t][2], p)

SpecCtl == InitCtl /\ [][NextCtl]_vars

\* The dispatcher: one host task on a persistent connection calls update(),
\* the control operations and command() with every retries argument; the
\* device sends any frame, the link may drop.
InitCmd ==
    /\ Constructed
    /\ dev = NoDev
    /\ persistent
    /\ devAccepts
    /\ limit = [t \in Tasks |-> IF t = "a" THEN MaxCmdOps ELSE 0]

RetryInputs == 0 .. MaxRetriesIn

NextCmd ==
    \/ \E t \in Tasks : StartUpdate(t, 1, "none")
    \/ \E t \in Tasks, c \in {COMMAND_GET_VERSION, COMMAND_AUTH}, r \in RetryInputs :
           StartCommand(t, c, r)
    \/ \E t \in Tasks, c \in {COMMAND_GET_VERSION, COMMAND_GET_STATUS} :
           StartCommandTimed(t, c, 20)
    \/ \E t \in Tasks : StartPostHeat(t)
    \/ \E t \in Tasks : StartSetState(t, MODE_MULTICOOK)
    \/ \E t \in Tasks : URetry(t)
    \/ \E t \in Tasks : TaskStep(t)
    \/ \E t \in Tasks : CmdRet(t)
    \/ \E t \in Tasks : CinFail(t)
    \/ \E t \in Tasks, o \in {"ok", "fail"} : ConnectDone(t, o)
    \/ \E t \in Tasks, e \in BOOLEAN : CmdPoll(t, e)
    \/ \E t \in Tasks : \E s \in EchoSeqs(t), p \in PayloadsFor(cmd[t].command, devAccepts) :
           Deliver(t, s, p)
    \/ \E t \in Tasks : \E s \in EchoSeqs(t) : DeliverForeign(t, s)
    \/ \E t \in Tasks : DeliverGarbage(t)
    \/ LinkLoss

SpecCmd == InitCmd /\ [][NextCmd]_vars

\* ------------------------------------------------------------------
\* The decoder at work: one caller polls a device in range that answers every
\* request, each status request with any payload of StatusInputs.
InitDec ==
    /\ Constructed
    /\ dev = NoDev
    /\ persistent
    /\ devAccepts
    /\ limit = [t \in Tasks |-> IF t = "a" THEN MaxDecOps ELSE 0]

AnswersFor(command) ==
    IF command = COMMAND_GET_STATUS THEN StatusInputs ELSE {<<1>>}

NextDec ==
    \/ \E t \in Tasks : StartUpdate(t, 1, "none")
    \/ \E t \in Tasks : UpdateEnter(t)
    \/ \E t \in Tasks : CinCheck(t)
    \/ \E t \in Tasks : CinConnect(t)
    \/ \E t \in Tasks : ConnectDone(t, "ok")
    \/ \E t \in Tasks : CinAuth(t)
    \/ \E t \in Tasks : CinStatus(t)
    \/ \E t \in Tasks : CinStatusRet(t)
    \/ \E t \in Tasks : UExtra(t)
    \/ \E t \in Tasks : UStatus(t)
    \/ \E t \in Tasks : UStatusRet(t)
    \/ \E t \in Tasks : UDone(t)
    \/ \E t \in Tasks : CmdBegin(t)
    \/ \E t \in Tasks : CmdWrite(t)
    \/ \E t \in Tasks : CmdPoll(t, FALSE)
    \/ \E t \in Tasks : \E p \in AnswersFor(cmd[t].command) : Deliver(t, iter, p)

SpecDec == InitDec /\ [][NextDec]_vars

\* ------------------------------------------------------------------
\* The stats tracker driven on its own, as tests/test_skycooker.py:61-68 and
\* tests/test_skycooker_comprehensive.py:151-167 drive it: MaxStatOps calls of
\* add_stat, with every sequence of outcomes of period StatPeriod.
Stat(v) == <<"stat", IF v THEN 1 ELSE 0>>

AddStat(t, v) ==
    /\ pc[t] = "idle"
    /\ ops[t] < limit[t]
    /\ ops' = [ops EXCEPT ![t] = @ + 1]
    /\ successes' = add_stat(successes, v)
    /\ steps' = [steps EXCEPT ![t] = Append(@, Stat(v))]
    /\ UNCHANGED <<client, auth_ok, last_connect_ok, last_auth_ok, iter, update_lock, disposed,
                   last_data, status, persistent, envVars, taskVars, n0, cycles, failed, fresh,
                   statTag, limit, args, tmo, writes, delay>>

StatInputs(t) ==
    IF Len(steps[t]) < StatPeriod THEN BOOLEAN
    ELSE {steps[t][Len(steps[t]) + 1 - StatPeriod][2] = 1}

InitStats ==
    /\ Constructed
    /\ dev = NoDev
    /\ persistent
    /\ devAccepts
    /\ limit = [t \in Tasks |-> IF t = "a" THEN MaxStatOps ELSE 0]

NextStats == \E t \in Tasks : \E v \in StatInputs(t) : AddStat(t, v)

SpecStats == InitStats /\ [][NextStats]_vars

\* ------------------------------------------------------------------
\* The target operations of the entities against a device that keeps what it
\* is sent: one caller, up to MaxTargetOps operations, a link that stays up.
TempInputs == {20, 60, 80, 150}
NameInputs == {"", "Stew", "Off", "Nonesuch"}
ModeNameInputs == {"Stew", "Off", "Nonesuch"}

DevInputs ==
    { [NoDev EXCEPT !.mode = x[1], !.on = x[2]] :
        x \in {<<0, FALSE>>, <<0, TRUE>>, <<5, TRUE>>, <<255, TRUE>>} }

InitTarget ==
    /\ Constructed
    /\ dev \in DevInputs
    /\ persistent
    /\ devAccepts
    /\ limit = [t \in Tasks |-> IF t = "a" THEN MaxTargetOps ELSE 0]

NextTarget ==
    \/ \E t \in Tasks : StartUpdate(t, 1, "none")
    \/ \E t \in Tasks, temp \in TempInputs, name \in NameInputs :
           StartSetTargetTemp(t, temp, name)
    \/ \E t \in Tasks, name \in ModeNameInputs : StartSetTargetMode(t, name)
    \/ \E t \in Tasks : UpdateEnter(t)
    \/ \E t \in Tasks : CinCheck(t)
    \/ \E t \in Tasks : CinConnect(t)
    \/ \E t \in Tasks : ConnectDone(t, "ok")
    \/ \E t \in Tasks : CinAuth(t)
    \/ \E t \in Tasks : CinStatus(t)
    \/ \E t \in Tasks : CinStatusRet(t)
    \/ \E t \in Tasks : UExtra(t)
    \/ \E t \in Tasks : UStatus(t)
    \/ \E t \in Tasks : UStatusRet(t)
    \/ \E t \in Tasks : UDone(t)
    \/ \E t \in Tasks : CmdBegin(t)
    \/ \E t \in Tasks : CmdWrite(t)
    \/ \E t \in Tasks : CmdPoll(t, FALSE)
    \/ \E t \in Tasks : CtlMainRet(t)
    \/ \E t \in Tasks, accepted \in BOOLEAN : DeliverDev(t, accepted)

SpecTarget == InitTarget /\ [][NextTarget]_vars

\* ------------------------------------------------------------------
\* The delayed start: a device that shows a cooking time, status fetches and
\* set_delay_time calls of one task.

WaitInputs == {<<0, 0>>, <<2, 15>>, <<0, 40>>, <<1, 59>>}
CookInputs == {<<0, 0>>, <<1, 30>>, <<0, 45>>}

InitDelay ==
    /\ Constructed
    /\ dev \in { [NoDev EXCEPT !.mode = 5, !.on = TRUE, !.hours = c[1], !.minutes = c[2],
                              !.wait_hours = c[1], !.wait_minutes = c[2]] : c \in CookInputs }
    /\ persistent
    /\ devAccepts
    /\ limit = [t \in Tasks |-> IF t = "a" THEN MaxDelayOps ELSE 0]

NextDelay ==
    \/ \E t \in Tasks : StartUpdate(t, 1, "none")
    \/ \E t \in Tasks, w \in WaitInputs : StartSetDelay(t, w[1], w[2])
    \/ \E t \in Tasks : UpdateEnter(t)
    \/ \E t \in Tasks : CinCheck(t)
    \/ \E t \in Tasks : CinConnect(t)
    \/ \E t \in Tasks : ConnectDone(t, "ok")
    \/ \E t \in Tasks : CinAuth(t)
    \/ \E t \in Tasks : CinStatus(t)
    \/ \E t \in Tasks : CinStatusRet(t)
    \/ \E t \in Tasks : UExtra(t)
    \/ \E t \in Tasks : UStatus(t)
    \/ \E t \in Tasks : UStatusRet(t)
    \/ \E t \in Tasks : UDone(t)
    \/ \E t \in Tasks : CmdBegin(t)
    \/ \E t \in Tasks : CmdWrite(t)
    \/ \E t \in Tasks : CmdPoll(t, FALSE)
    \/ \E t \in Tasks : CtlRet(t)
    \/ \E t \in Tasks, accepted \in BOOLEAN : DeliverDev(t, accepted)

SpecDelay == InitDelay /\ [][NextDelay]_vars

\* ------------------------------------------------------------------
\* The device of SpecCmd, which also answers a mutating command with a first
\* payload byte other than 0 and 1.

AckInputs == {<<2>>, <<255>>}

NextAck ==
    \/ NextCmd
    \/ \E t \in Tasks : \E s \in EchoSeqs(t), p \in AckInputs :
           Mutating(cmd[t].command) /\ Deliver(t, s, p)

SpecAck == InitCmd /\ [][NextAck]_vars

\* ------------------------------------------------------------ properties
\* cooker_connection.py:179-183  t's frame is written and its wait for the
\* response has neither returned nor timed out
Outstanding(t) == pc[t] = "cmd_wait"

\* cooker_connection.py:366-394  t is inside "async with self._update_lock"
UpdateBodyPcs == {"cin", "cin2", "connecting", "cin_fail", "cin_auth", "cin_status",
                  "cin_status_ret", "u_extra", "extra_wait", "u_status", "u_status_ret",
                  "u_done"}
InUpdateBody(t) ==
    \/ pc[t] \in UpdateBodyPcs
    \/ pc[t] \in {"disc", "disc_wait"} /\ dret[t] \in {"cin2", "cin_fail", "u_done"}
    \/ /\ pc[t] \in {"cmd_begin", "cmd_write", "cmd_wait", "cmd_sleep"}
       /\ ret[t] \in {"cin_status_ret", "u_status_ret"}

\* cooker_connection.py:396-402  t is in the exception handler of update(),
\* before the failure is recorded
InHandler(t) ==
    \/ pc[t] \in {"u_exc", "u_exc2"}
    \/ pc[t] \in {"disc", "disc_wait"} /\ dret[t] = "u_exc2"

\* cooker_connection.py:412-416  entries of the stats buffer with value v that
\* the running (or last) top-level call of t appended
Recorded(t, v) ==
    Cardinality({i \in DOMAIN statTag : statTag[i] = <<t, ops[t]>> /\ successes[i] = v})

\* cooker_connection.py:322  in the current cycle of t the transport link was
\* established to a device that does not accept the key
Rejected(t) == ~devAccepts /\ steps[t] # << >> /\ steps[t][1] = Did("connect")

\* C1: at most one command is outstanding on the connection at any instant.
C1_SingleFlight ==
    \A t, u \in Tasks : Outstanding(t) /\ Outstanding(u) => t = u

\* C2: whenever a command() call returns a response, the inbound frame that
\* satisfied it carries the sequence byte of the frame this call wrote.
C2_SequenceCorrelation ==
    [][\A t \in Tasks :
          (pc[t] = "cmd_wait" /\ pc'[t] = ret[t] /\ res'[t].ok) => last_data[2] = data[t][2]]_vars

\* C3: on a link, no frame other than authenticate is written before an
\* authenticate frame was written on that link and answered with a non-zero
\* byte, and the connection is marked authenticated only after such an answer.
C3_AuthBeforeTraffic ==
    /\ \A t \in Tasks :
         (InFlight(t) /\ cmd[t].command # COMMAND_AUTH) => wclient[t] \in linkAuth
    /\ auth_ok => client \in linkAuth

\* C4: in an update() whose first cycle reaches a device that rejects the key,
\* nothing is appended to the stats buffer, the cycle is not retried, and the
\* call returns false with the connection Disconnected.
C4_AuthRejection ==
    \A t \in Tasks :
        (Rejected(t) /\ cycles[t] = 1) =>
            /\ Recorded(t, TRUE) = 0
            /\ Recorded(t, FALSE) = 0
            /\ pc[t] # "u_sleep"
            /\ pc[t] = "idle" => (result[t] = "false" /\ client = 0 /\ ~auth_ok)

\* C5: an update() that starts Disconnected and succeeds in its first cycle does
\* connect, authenticate, the extra action if supplied, one status fetch, the
\* disconnect only if not persistent, then records the success; it returns true,
\* the cached state is the decoding of the fetched payload, and a persistent
\* connection is left connected, authenticated and with the last-connect flag set.
C5_SuccessPath ==
    \A t \in Tasks :
        LET SuccessSteps ==
                <<Did("connect"), Sent(COMMAND_AUTH)>>
                    \o (IF extra[t] = "ok" THEN <<Did("extra")>> ELSE << >>)
                    \o <<Sent(COMMAND_GET_STATUS)>>
                    \o (IF persistent THEN << >> ELSE <<Did("disconnect")>>)
                    \o <<Did("record")>>
        IN  /\ (pc[t] = "u_done" /\ fresh[t] /\ cycles[t] = 1) =>
                   status = <<DecodeStatus(res[t].payload)>>
            /\ (pc[t] = "idle" /\ result[t] = "true" /\ fresh[t] /\ cycles[t] = 1) =>
                   /\ steps[t] = SuccessSteps
                   /\ status # << >>
                   /\ persistent => (client # 0 /\ auth_ok /\ last_connect_ok)

\* C6: at most one update() invocation at a time is between acquiring and
\* releasing the update lock, and that one is the holder of the lock.
C6_UpdateMutex ==
    /\ \A t, u \in Tasks : InUpdateBody(t) /\ InUpdateBody(u) => t = u
    /\ \A t \in Tasks : InUpdateBody(t) => update_lock = t

\* a second update() waits for the lock while the first is inside the block
C6_Witness ==
    \E t, u \in Tasks : t # u /\ InUpdateBody(t) /\ pc[t] = "cmd_wait" /\ pc[u] = "u_lock"

\* C7: update(tries = n) enters at most n cycles; it sleeps for a retry only
\* after a failed cycle that left it Disconnected, with no extra action and
\* tries remaining, each retry lowering tries by one; it returns false only when
\* tries are exhausted, an extra action was supplied or the connection is
\* disposed; it ends with a boolean.
C7_RetryBudget ==
    \A t \in Tasks :
        /\ cycles[t] <= n0[t]
        /\ pc[t] = "u_sleep" =>
               /\ extra[t] = "none"
               /\ tries[t] > 1
               /\ tries[t] = n0[t] - cycles[t] + 1
               /\ failed[t] = cycles[t]
               /\ client = 0 /\ ~auth_ok
        /\ (pc[t] = "idle" /\ n0[t] > 0) =>
               /\ result[t] \in {"true", "false"}
               /\ (result[t] = "false" /\ failed[t] >= 1) =>
                      (tries[t] = 1 \/ extra[t] # "none" \/ disposed)

\* all MAX_TRIES cycles of an update() failed and it returned false
C7_Witness ==
    \E t \in Tasks :
        /\ pc[t] = "idle" /\ result[t] = "false" /\ ~disposed
        /\ n0[t] = MAX_TRIES /\ cycles[t] = MAX_TRIES /\ failed[t] = MAX_TRIES

C9_DisposedCleanFalse ==
    [][\A t \in Tasks :
          (pc[t] = "u_exc2" /\ err[t] = "Disposed" /\ pc'[t] # "u_exc2") =>
              (successes' = successes /\ pc'[t] = "idle" /\ result'[t] = "false")]_vars

\* C10: when update() is about to return true, a persistent connection is
\* connected and authenticated and a transient one has no client and is not
\* authenticated; when a failed cycle has done its disconnect, the connection has
\* no client and is not authenticated.
C10_LinkStateAfterUpdate ==
    \A t \in Tasks :
        /\ pc[t] = "u_done" =>
               IF persistent THEN Connected /\ auth_ok ELSE client = 0 /\ ~auth_ok
        /\ pc[t] = "u_exc2" => (client = 0 /\ ~auth_ok)

\* C11: the disposed flag, once set, is never cleared; on a disposed connection
\* an update() that reaches its entry returns false there, with no connect and
\* no frame written; a command() that starts fails with DisposedError; a
\* connect attempt fails with DisposedError.
C11_DisposedTerminal ==
    [][/\ disposed => disposed'
       /\ \A t \in Tasks :
            /\ (disposed /\ pc[t] \in {"u_enter", "u_lock"} /\ pc'[t] \notin {"u_enter", "u_lock"}) =>
                   /\ pc'[t] = "idle" /\ result'[t] = "false"
                   /\ client' = client /\ linkUp' = linkUp /\ iter' = iter
                   /\ cycles'[t] = cycles[t] /\ update_lock' = update_lock
            /\ (disposed /\ pc[t] = "cmd_begin" /\ pc'[t] # "cmd_begin") =>
                   /\ pc'[t] = ret[t] /\ res'[t] = Err("Disposed")
                   /\ iter' = iter /\ wclient'[t] = wclient[t]
            /\ (disposed /\ pc[t] = "cin2" /\ ~Connected /\ pc'[t] # "cin2") =>
                   /\ pc'[t] # "connecting" /\ err'[t] = "Disposed"]_vars

\* after stop(), an update() was started and returned false without a cycle,
\* and the flag is still set
C11_Witness ==
    \E t \in Tasks :
        /\ disposed /\ pc[t] = "idle" /\ result[t] = "false"
        /\ n0[t] > 0 /\ cycles[t] = 0 /\ client = 0

\* C12: the step of stop() that disposes the connection leaves it torn down:
\* no client, not authenticated, and the link of the client it had is closed;
\* stop() on a disposed connection changes nothing.
C12_DisposalTearsDown ==
    [][(~disposed /\ disposed') =>
           /\ client' = 0
           /\ ~auth_ok'
           /\ client \notin linkUp']_vars

\* C13: on a disposed connection a command() call that is waiting for its
\* response or sleeping between attempts ends with an error: it neither
\* returns a response nor goes on to write its frame again.
C13_DisposalShortCircuits ==
    [][\A t \in Tasks :
          /\ (disposed /\ pc[t] = "cmd_sleep" /\ pc'[t] # "cmd_sleep") =>
                 (pc'[t] = ret[t] /\ ~res'[t].ok)
          /\ (disposed /\ pc[t] = "cmd_wait" /\ pc'[t] # "cmd_wait") =>
                 (pc'[t] = ret[t] /\ ~res'[t].ok)]_vars

\* cooker_connection.py:151-213  t is inside a command() call
InCommand(t) == pc[t] \in {"cmd_begin", "cmd_write", "cmd_wait", "cmd_sleep"}

\* cooker_connection.py:361-410  t is inside an update() call
InUpdate(t) == n0[t] > 0 /\ pc[t] # "idle"

AttemptError(t) ==
    IF pc[t] = "cmd_write" THEN "IO"
    ELSE IF last_data = << >> THEN "Timeout"
    ELSE IF BadMagic(last_data) THEN "IO"
    ELSE IF SeqMatches(last_data) THEN "IO"
    ELSE "Timeout"

\* C15: a command() call with retries = r writes at most r + 1 frames; a call
\* that passed its preconditions fails only in its attempt r + 1, and then with
\* the error of that attempt.
C15_BoundedAttempts ==
    [][\A t \in Tasks :
          /\ InCommand(t)' => (writes'[t] <= cmd'[t].retries + 1 /\ writes'[t] <= attempt'[t])
          /\ (pc[t] \in {"cmd_write", "cmd_wait"} /\ pc'[t] = ret[t] /\ ~res'[t].ok) =>
                 /\ attempt[t] = cmd[t].retries + 1
                 /\ writes'[t] <= cmd[t].retries + 1
                 /\ res'[t].err = AttemptError(t)]_vars

\* a call with retries = 1 failed with the timeout of its second attempt,
\* after two writes
C15_Witness ==
    \E t \in Tasks :
        /\ pc[t] = "cmd_ret" /\ ~res[t].ok /\ res[t].err = "Timeout"
        /\ cmd[t].retries = 1 /\ attempt[t] = 2 /\ writes[t] = 2 /\ tmo[t] = 1

\* C16: the step that starts a retry attempt of a command() call advances the
\* sequence counter by one, and the frame it is about to write carries the
\* new value.
C16_FreshSequencePerWrite ==
    [][\A t \in Tasks :
          (pc[t] = "cmd_sleep" /\ pc'[t] = "cmd_write") =>
              (iter' = NextIter(iter) /\ data'[t][2] = iter')]_vars

\* C17: the sequence counter stays in 0..255; the step of a command() call that
\* passes its preconditions advances it by one modulo 256, and 256 such
\* advances bring it back to where it was (to 0 from the start); no other step
\* (disconnect, reconnect, failed cycle, retry) changes it.
C17_SequenceCounter ==
    [][/\ iter \in 0 .. 255 /\ iter' \in 0 .. 255
       /\ IF \E t \in Tasks : pc[t] = "cmd_begin" /\ pc'[t] = "cmd_write"
          THEN iter' = (iter + 1) % 256
          ELSE iter' = iter
       /\ AdvanceBy256[iter] = iter
       /\ AdvanceBy256[0] = 0
       /\ \A i \in 0 .. 255 : NextIter(i) = IF i = 255 THEN 0 ELSE i + 1]_vars

\* after a failed cycle and its disconnect, the status fetch of the second
\* cycle goes out on the new link with the next sequence byte
C17_Witness ==
    \E t \in Tasks :
        /\ pc[t] = "cmd_wait" /\ cycles[t] = 2 /\ failed[t] = 1
        /\ iter = 2 /\ data[t][2] = 2 /\ wclient[t] = client

\* cooker_connection.py:227-233  the buffered frame has valid markers and the
\* sequence byte and command id of the frame t wrote
Matching(t) ==
    /\ last_data # << >> /\ ~BadMagic(last_data)
    /\ last_data[2] = data[t][2] /\ last_data[3] = cmd[t].command

\* C18: while a command() call waits, a buffered frame with valid markers and
\* another sequence byte is discarded by the next pass of the polling loop
\* without ending the attempt (only the timeout ends it); a matching frame,
\* once in the buffer, stays there until the call returns it as its response,
\* whatever is delivered after it.
C18_CorrelationLoop ==
    [][\A t \in Tasks :
          /\ ( /\ pc[t] = "cmd_wait" /\ last_data # << >> /\ ~BadMagic(last_data)
               /\ last_data[2] # data[t][2]
               /\ (last_data' = << >> \/ pc'[t] # "cmd_wait") ) =>
                   /\ last_data' = << >> /\ attempt'[t] = attempt[t]
                   /\ pc'[t] = "cmd_wait" \/ tmo'[t] = tmo[t] + 1
          /\ (pc[t] = "cmd_wait" /\ Matching(t)) =>
                 \/ last_data' = last_data /\ pc'[t] = "cmd_wait"
                 \/ pc'[t] = ret[t] /\ res'[t] = Ok(Clean(last_data))]_vars

\* C19: a pass of the polling loop that finds a buffered frame with a bad start
\* or end marker ends the command() call with an error: the call does not go
\* on to another attempt.
C19_MarkerHardFailure ==
    [][\A t \in Tasks :
          ( /\ pc[t] = "cmd_wait" /\ last_data # << >> /\ BadMagic(last_data)
            /\ pc'[t] # "cmd_wait" ) =>
                (pc'[t] = ret[t] /\ ~res'[t].ok)]_vars

\* cooker_connection.py:186, 233  the buffered frame has valid markers and the
\* expected sequence byte, and its command id is not the requested one
WrongCommand(t) ==
    /\ last_data # << >> /\ ~BadMagic(last_data)
    /\ last_data[2] = iter /\ last_data[3] # cmd[t].command

\* C20: a frame with the expected sequence byte and another command id is
\* never returned as the response; the pass that finds it starts a new attempt
\* of the same command (the same frame, after the back-off sleep) if retries
\* remain, and otherwise the call fails.
C20_CommandIdMismatch ==
    [][\A t \in Tasks :
          /\ (pc[t] = "cmd_wait" /\ pc'[t] = ret[t] /\ res'[t].ok) => ~WrongCommand(t)
          /\ (pc[t] = "cmd_wait" /\ WrongCommand(t) /\ pc'[t] # "cmd_wait") =>
                 IF attempt[t] <= cmd[t].retries
                 THEN pc'[t] = "cmd_sleep" /\ res'[t] = res[t]
                 ELSE pc'[t] = ret[t] /\ ~res'[t].ok
          /\ (pc[t] = "cmd_sleep" /\ pc'[t] # "cmd_sleep") =>
                 /\ pc'[t] = "cmd_write" /\ attempt'[t] = attempt[t] + 1
                 /\ cmd'[t] = cmd[t] /\ data'[t] = data[t]]_vars

\* a call with retries = 0 wrote its frame, got a frame with its sequence
\* byte and another command id, and failed
C20_Witness ==
    \E t \in Tasks :
        /\ pc[t] = "cmd_ret" /\ ~res[t].ok /\ res[t].err = "IO"
        /\ cmd[t].retries = 0 /\ attempt[t] = 1 /\ writes[t] = 1
        /\ WrongCommand(t)

\* C21: a command() call that starts on a disposed connection fails with
\* DisposedError; one that starts on a connection that is not disposed and has
\* no client, or a client whose link is down, fails with IOError; in both
\* cases nothing is written, and the sequence counter and the inbound buffer
\* are as before.
C21_CommandPreconditions ==
    [][\A t \in Tasks :
          (pc[t] = "cmd_begin" /\ pc'[t] # "cmd_begin") =>
              IF disposed \/ client = 0 \/ client \notin linkUp
              THEN /\ pc'[t] = ret[t]
                   /\ res'[t] = Err(IF disposed THEN "Disposed" ELSE "IO")
                   /\ iter' = iter /\ last_data' = last_data
                   /\ writes'[t] = writes[t] /\ wclient'[t] = wclient[t]
              ELSE pc'[t] = "cmd_write" /\ iter' # iter]_vars

\* the first status fetch of an update() succeeded with sequence byte 1, the
\* link dropped during the extra action, and the second fetch failed with
\* IOError at its precondition: counter and buffer are those of the first fetch
C21_Witness ==
    \E t \in Tasks :
        /\ pc[t] = "u_status_ret" /\ res[t] = Err("IO") /\ ~disposed
        /\ cycles[t] = 1 /\ status # << >> /\ iter = 1
        /\ client # 0 /\ client \notin linkUp /\ last_data # << >>

\* C22: when _connect_if_need() of the first cycle of the first update() has
\* returned (the connection is connected and authenticated for the first
\* time), the cycle has requested the firmware version exactly once.
C22_VersionOnFirstReady ==
    \A t \in Tasks :
        (pc[t] = "u_extra" /\ fresh[t] /\ ops[t] = 1 /\ cycles[t] = 1) =>
            Cardinality({i \in DOMAIN steps[t] : steps[t][i] = Sent(COMMAND_GET_VERSION)}) = 1

\* cooker_connection.py:314-322  the running cycle of t began with a client
\* whose link was down: it disconnected first, then connected
Recovering(t) ==
    /\ ~fresh[t] /\ cycles[t] = 1 /\ Len(steps[t]) >= 2
    /\ steps[t][1] = Did("disconnect") /\ steps[t][2] = Did("connect")

\* C23: an update() that finds the link of its client down has dropped the
\* client and the authenticated flag when it reconnects, and a frame other
\* than authenticate that it then writes goes out on a link on which
\* authenticate was written and answered.
C23_LazyLinkLossRecovery ==
    \A t \in Tasks :
        /\ pc[t] = "connecting" => (client = 0 /\ ~auth_ok)
        /\ (Recovering(t) /\ InFlight(t) /\ cmd[t].command # COMMAND_AUTH) =>
               wclient[t] \in linkAuth

\* cooker_connection.py:347-350, 384  status requests written in the running
\* cycle of t; two of them: _connect_if_need found no cached state and fetched
Fetches(t) ==
    Cardinality({i \in DOMAIN steps[t] : steps[t][i] = Sent(COMMAND_GET_STATUS)})

\* C24: the cached state changes only to the decoding of a status response
\* just received; a present state never becomes absent; a cycle that began
\* with no cached state and fails at the status fetch of update() leaves none.
C24_StateLifecycle ==
    [][/\ status' # status =>
              \E t \in Tasks :
                  /\ pc[t] \in {"cin_status_ret", "u_status_ret"}
                  /\ res[t].ok /\ ~DecodeFails(res[t].payload)
                  /\ status' = <<DecodeStatus(res[t].payload)>>
       /\ status # << >> => status' # << >>
       /\ \A t \in Tasks :
              (pc[t] = "u_status_ret" /\ pc'[t] = "u_exc" /\ Fetches(t) = 2) =>
                  status' = << >>]_vars

\* C25: a get-status response whose payload is shorter than 12 bytes makes
\* the fetch fail with the decoding error, and the cached state stays as it
\* was; no payload of 0 to 11 bytes decodes to a state.
C25_ShortStatusPayload ==
    [][/\ \A t \in Tasks :
            ( /\ pc[t] \in {"cin_status_ret", "u_status_ret"} /\ pc'[t] # pc[t]
              /\ res[t].ok /\ Len(res[t].payload) < 12 ) =>
                  (pc'[t] = "u_exc" /\ err'[t] = "Index" /\ status' = status)
       /\ \A n \in 0 .. 11 : ~get_status([i \in 1 .. n |-> 0]).ok]_vars

\* with a state cached, the status fetch of update() returned a 3-byte
\* payload: the cycle failed and the cached state is still there
C25_Witness ==
    \E t \in Tasks :
        /\ pc[t] = "u_exc" /\ err[t] = "Index"
        /\ res[t].ok /\ res[t].payload = StatusShort
        /\ status # << >>

\* C26: a status payload of at least 12 bytes decodes to mode = byte 3 + 1,
\* cooking time = bytes 6 and 7, delay = byte 8 - byte 6 and byte 9 - byte 7,
\* status = byte 11, power = (status > 0), post-heat = (byte 10 = 1); wait
\* fields equal to the cooking fields give delay (0,0), wait fields one less
\* give (-1,-1).  (Python byte i is element i + 1 of the payload.)
C26_StatusDecoding ==
    [][\A t \in Tasks :
          ( /\ pc[t] \in {"cin_status_ret", "u_status_ret"} /\ pc'[t] # pc[t]
            /\ res[t].ok /\ Len(res[t].payload) >= 12 ) =>
              LET p == res[t].payload
                  s == status'[1]
              IN  /\ status' # << >>
                  /\ s.mode = p[4] + 1
                  /\ s.hours = p[7] /\ s.minutes = p[8]
                  /\ s.wait_hours = p[9] - p[7]
                  /\ s.wait_minutes = p[10] - p[8]
                  /\ s.status = p[12]
                  /\ s.power = (p[12] > 0)
                  /\ s.postheat = (p[11] = 1)
                  /\ (p[9] = p[7] /\ p[10] = p[8]) =>
                         (s.wait_hours = 0 /\ s.wait_minutes = 0)
                  /\ (p[9] = p[7] - 1 /\ p[10] = p[8] - 1) =>
                         (s.wait_hours = -1 /\ s.wait_minutes = -1)]_vars

\* the status fetch of a connect returned a payload whose wait fields are one
\* less than its cooking fields, and the cached state holds the sentinel
C26_Witness ==
    \E t \in Tasks :
        /\ pc[t] = "u_extra"
        /\ res[t].ok /\ Len(res[t].payload) >= 12
        /\ res[t].payload[9] = res[t].payload[7] - 1
        /\ res[t].payload[10] = res[t].payload[8] - 1
        /\ status # << >>
        /\ status[1].wait_hours = -1 /\ status[1].wait_minutes = -1
        /\ status[1].mode = 16 /\ status[1].power

\* C27: a mutating command whose response arrived succeeds exactly when the
\* first payload byte of the response is non-zero, and ends in an error when
\* that byte is zero.
C27_SuccessIndicator ==
    [][\A t \in Tasks :
          ( /\ pc[t] \in {"ctl_ret", "ctl_main_ret"} /\ pc'[t] # pc[t]
            /\ res[t].ok /\ res[t].payload # << >> ) =>
              ((res[t].payload[1] # 0) <=> (result'[t] # "error"))]_vars

\* C28: the frame command() builds and writes is 0x55, the sequence byte, the
\* command byte, the payload, 0xAA; sequence = byte 1, command = byte 2 and
\* payload = bytes 3 to len-2 of that frame give back what went in; and a
\* command() that succeeds returns the payload bytes of the frame it matched,
\* which carries its sequence byte and its command byte.
C28_FrameRoundTrip ==
    [][/\ \A t \in Tasks :
            /\ (pc[t] = "cmd_begin" /\ pc'[t] = "cmd_write") =>
                   /\ data'[t] = <<85, iter', cmd[t].command>> \o cmd[t].params \o <<170>>
                   /\ data'[t][2] = iter' /\ data'[t][3] = cmd[t].command
                   /\ Clean(data'[t]) = cmd[t].params
            /\ (pc[t] = "cmd_write" /\ pc'[t] = "cmd_wait") =>
                   data[t] = <<85, data[t][2], cmd[t].command>> \o cmd[t].params \o <<170>>
            /\ (pc[t] = "cmd_wait" /\ pc'[t] = ret[t] /\ res'[t].ok) =>
                   /\ last_data[2] = data[t][2] /\ last_data[3] = cmd[t].command
                   /\ last_data = <<85, data[t][2], cmd[t].command>> \o res'[t].payload \o <<170>>
       /\ \A seq \in {0, 1, 85, 170, 255}, c \in {1, 6, 85, 170, 255},
             p \in {<< >>, <<0>>, <<170>>, <<85, 170>>, <<1, 2, 3>>, StatusA} :
               LET f == Frame(seq, c, p)
               IN  /\ f = <<85, seq, c>> \o p \o <<170>>
                   /\ Len(f) = Len(p) + 4
                   /\ f[2] = seq /\ f[3] = c /\ Clean(f) = p]_vars

\* command() returned the 12 payload bytes of a status frame it matched
C28_Witness ==
    \E t \in Tasks :
        /\ pc[t] \in {"cin_status_ret", "u_status_ret"}
        /\ res[t].ok /\ res[t].payload = StatusA
        /\ last_data = <<85, data[t][2], 6>> \o StatusA \o <<170>>

\* C29: after any number of add_stat calls the buffer holds the most recent
\* outcomes in recording order, at most 100 of them; after 150 records it
\* holds 100 and success_rate is the share of successes among the last 100.
C29_StatsBufferBound ==
    LET h == steps["a"]
        n == Len(h)
        k == IF n < 100 THEN n ELSE 100
    IN  ops["a"] = n =>
          /\ Len(successes) <= 100
          /\ Len(successes) = k
          /\ \A i \in 1 .. k : successes[i] = (h[n - k + i] = Stat(TRUE))
          /\ n = 150 =>
                /\ Len(successes) = 100
                /\ success_rate(successes) =
                       Cardinality({i \in 51 .. 150 : h[i] = Stat(TRUE)})

\* 150 outcomes were recorded, the first a success, the second a failure
C29_Witness ==
    /\ Len(steps["a"]) = 150 /\ ops["a"] = 150
    /\ steps["a"][1] = Stat(TRUE) /\ steps["a"][2] = Stat(FALSE)
    /\ Len(successes) = 100

\* C30: success_rate is 0 for an empty buffer and otherwise 100 * successes /
\* total rounded to the nearest integer; after [true, false, true] it is 67.
C30_SuccessRate ==
    LET s == Cardinality({i \in DOMAIN successes : successes[i]})
        t == Len(successes)
        d == 100 * s - success_rate(successes) * t
    IN  /\ t = 0 => success_rate(successes) = 0
        /\ t > 0 => (2 * d <= t /\ -2 * d <= t)
        /\ successes = <<TRUE, FALSE, TRUE>> => success_rate(successes) = 67

\* C30, amended: success_rate is 0 for an empty buffer and otherwise 100 *
\* successes / total with the fraction cut off, a whole percentage between 0 and
\* 100 that is never above the quotient; after [true, false, true] it is 66.
C30_SuccessRateCut ==
    LET s == Cardinality({i \in DOMAIN successes : successes[i]})
        t == Len(successes)
        d == 100 * s - success_rate(successes) * t
    IN  /\ t = 0 => success_rate(successes) = 0
        /\ success_rate(successes) \in 0 .. 100
        /\ t > 0 => d \in 0 .. (t - 1)
        /\ successes = <<TRUE, FALSE, TRUE>> => success_rate(successes) = 66

\* [true, false, true] was recorded and the rate reads 66
C30_Witness ==
    /\ ops["a"] = 3
    /\ successes = <<TRUE, FALSE, TRUE>>
    /\ success_rate(successes) = 66

\* C31: success_rate is the integer part of 100 * successes / total over the
\* buffered outcomes: 66 after [true, false, true], 75 after [true, false,
\* true, true].
C31_SuccessRateTruncates ==
    LET s == Cardinality({i \in DOMAIN successes : successes[i]})
        t == Len(successes)
        r == success_rate(successes)
    IN  /\ t > 0 => (r * t <= 100 * s /\ 100 * s < (r + 1) * t)
        /\ successes = <<TRUE, FALSE, TRUE>> => r = 66
        /\ successes = <<TRUE, FALSE, TRUE, TRUE>> => r = 75

\* the four outcomes of test_statistics were recorded and the rate reads 75
C31_Witness ==
    /\ ops["a"] = 4
    /\ steps["a"] = <<Stat(TRUE), Stat(FALSE), Stat(TRUE), Stat(TRUE)>>
    /\ successes = <<TRUE, FALSE, TRUE, TRUE>>
    /\ success_rate(successes) = 75

\* the call of set_target_temp or set_target_mode that task t makes in this step
Calls(t, op) == pc[t] = "idle" /\ ops'[t] = ops[t] + 1 /\ args'[t].op = op

\* the cached target temperature and active mode, read off the cached state
CachedTemp == IF status = << >> THEN -1 ELSE status[1].target_temperature
CachedMode == IF status # << >> /\ status[1].power THEN status[1].mode ELSE -1

\* the temperature t clamped into [30, 120]
Clamped(v) == IF v < 30 THEN 30 ELSE IF v > 120 THEN 120 ELSE v

\* the mode set_target_temp is to ask for: the named one, else the cached
\* active mode, else multicook
WantedMode(name) ==
    IF name = "Stew" THEN 1 ELSE IF name = "Off" THEN 255
    ELSE IF CachedMode # -1 THEN CachedMode ELSE 5

C33_Original ==
    [][\A t \in Tasks :
          /\ Calls(t, "mode") =>
                LET name == args'[t].name
                    id == IF name = "Stew" THEN 1 ELSE IF name = "Off" THEN 255 ELSE -1
                IN  IF id = -1 \/ id = CachedMode
                    THEN pc'[t] = "idle" /\ cmd'[t] = cmd[t]
                    ELSE /\ pc'[t] = "cmd_begin"
                         /\ IF id = 255
                            THEN cmd'[t].command = COMMAND_TURN_OFF
                            ELSE /\ cmd'[t].command = COMMAND_SET_MAIN_MODE
                                 /\ cmd'[t].params[1] = id
          /\ (args[t].op = "mode" /\ pc[t] = "ctl_main_ret" /\ pc'[t] # pc[t]) =>
                pc'[t] = "u_enter"]_vars

\* C33 (amended): as stated, except that one update() follows exactly when the
\* request was answered with first payload byte 1; when the request fails or
\* is refused the call ends in that error and no update() runs.
C33_SetTargetMode ==
    [][\A t \in Tasks :
          /\ Calls(t, "mode") =>
                LET name == args'[t].name
                    id == IF name = "Stew" THEN 1 ELSE IF name = "Off" THEN 255 ELSE -1
                IN  IF id = -1 \/ id = CachedMode
                    THEN pc'[t] = "idle" /\ cmd'[t] = cmd[t] /\ result'[t] = "none"
                    ELSE /\ pc'[t] = "cmd_begin"
                         /\ IF id = 255
                            THEN cmd'[t].command = COMMAND_TURN_OFF /\ cmd'[t].params = << >>
                            ELSE /\ cmd'[t].command = COMMAND_SET_MAIN_MODE
                                 /\ cmd'[t].params = <<id, 0, 0, 0, 0, 0>>
          /\ (args[t].op = "mode" /\ pc[t] = "ctl_main_ret" /\ pc'[t] # pc[t]) =>
                IF res[t].ok /\ res[t].payload # << >> /\ res[t].payload[1] = 1
                THEN pc'[t] = "u_enter" /\ tries'[t] = MAX_TRIES
                ELSE pc'[t] = "idle" /\ result'[t] = "error"
          /\ (args[t].op = "mode" /\ ops'[t] = ops[t] /\ pc'[t] # pc[t]
                 /\ pc'[t] \in {"cmd_begin", "u_enter"}
                 /\ ret'[t] \notin {"cin_status_ret", "u_status_ret"}) =>
                pc[t] = "ctl_main_ret"]_vars

\* set_target_mode("Stew") while another mode is on: the device took mode byte
\* 1 and update() runs
C33_Witness ==
    \E t \in Tasks :
        /\ args[t].op = "mode" /\ args[t].name = "Stew"
        /\ pc[t] = "u_enter" /\ tries[t] = MAX_TRIES
        /\ dev.mode = 1 /\ dev.on
        /\ status # << >> /\ status[1].mode = 6

\* C34: the step of command() that opens the attempt loop fixes the response
\* window: a call that named a timeout keeps it, a call that named none gets 5.0 s
\* for get-version, 3.0 s for authenticate and 1.5 s for every other command id
C34_PerCommandTimeout ==
    [][\A t \in Tasks :
          (pc[t] = "cmd_begin" /\ pc'[t] = "cmd_write") =>
              cmd'[t].timeout =
                  IF cmd[t].timeout # << >> THEN cmd[t].timeout
                  ELSE IF cmd[t].command = COMMAND_GET_VERSION THEN <<50>>
                  ELSE IF cmd[t].command = COMMAND_AUTH THEN <<30>>
                  ELSE <<15>>]_vars

\* the second call of a task is an authenticate call that named no timeout and
\* is waiting 3.0 s for its response
C34_Witness ==
    \E t \in Tasks : /\ pc[t] = "cmd_wait" /\ ops[t] = 2
                     /\ cmd[t].command = COMMAND_AUTH
                     /\ cmd[t].timeout = <<30>>

\* C35: every attempt of command() begins with an empty inbound slot, the slot
\* is filled by notifications only, and a response is returned only out of the
\* slot: a frame that sat in the slot before an attempt began is gone when
\* the attempt writes and waits, and is never that attempt's response
C35_StaleFrameProtection ==
    [][\A t \in Tasks :
          /\ (pc[t] \in {"cmd_begin", "cmd_sleep"} /\ pc'[t] = "cmd_write") =>
                 last_data' = << >>
          /\ (last_data' # last_data /\ last_data' # << >>) =>
                 /\ pc' = pc /\ res' = res /\ attempt' = attempt
                 /\ \E u \in Tasks : pc[u] \in {"cmd_write", "cmd_wait", "cmd_sleep"}
          /\ (pc[t] = "cmd_wait" /\ pc'[t] = ret[t] /\ res'[t].ok) =>
                 /\ last_data # << >>
                 /\ res'[t] = Ok(Clean(last_data))]_vars

\* a late answer with the right sequence byte and command id sits in the slot
\* while the call sleeps before its third attempt
C35_Witness ==
    \E t \in Tasks : /\ pc[t] = "cmd_sleep" /\ attempt[t] = 2
                     /\ last_data # << >> /\ ~BadMagic(last_data)
                     /\ SeqMatches(last_data) /\ last_data[3] = cmd[t].command

\* C36: within one command() call the sleep before a later attempt is never
\* shorter than the sleep before the attempt preceding it, whatever made the
\* attempts fail
C36_BackoffMonotone ==
    [][\A t \in Tasks :
          (pc[t] # "cmd_sleep" /\ pc'[t] = "cmd_sleep") => delay'[t] >= delay[t]]_vars

\* C37: the disconnect of an update() that failed leaves alone a client that
\* another update() connected, and that client's authentication, after the
\* failure: when its transport disconnect ends and the connection holds a
\* client other than the one it set out to close, client and authenticated
\* flag stay as they are
C37_LinkStateUnderLock ==
    [][\A t \in Tasks :
          (/\ pc[t] = "disc_wait" /\ pc'[t] # "disc_wait"
           /\ client # 0 /\ client # dclient[t]) =>
              (client' = client /\ auth_ok' = auth_ok)]_vars

\* C39: when a status was fetched from a device that shows the cooking time
\* passed to set_delay_time(wait_hours, wait_minutes, hours, minutes) and the
\* delay field that call wrote, the decoded delay is wait_hours hours and
\* wait_minutes minutes, neither of them negative
C39_DelayRoundTrip ==
    \A t \in Tasks :
        LET w == args[t].wait
        IN  (/\ pc[t] = "idle" /\ result[t] = "true" /\ w # << >>
             /\ w[2] \in 0 .. 59 /\ w[4] \in 0 .. 59
             /\ status # << >>
             /\ status[1].hours = w[3] /\ status[1].minutes = w[4]
             /\ <<dev.hours, dev.minutes>> = <<w[3], w[4]>>
             /\ <<dev.wait_hours, dev.wait_minutes>> = DelayData(w[1], w[2], w[3], w[4]))
            => /\ status[1].wait_hours = w[1]
               /\ status[1].wait_minutes = w[2]
               /\ status[1].wait_hours >= 0 /\ status[1].wait_minutes >= 0

\* C40: after set_target_mode("Stew") sent its request, the device took the mode
\* byte it was sent and shows it in the status that the following update()
\* fetched, target_mode_str is "Stew", and a further set_target_mode("Stew")
\* returns without sending a command
C40_ModeRoundTrip ==
    [][\A t \in Tasks :
          (/\ pc[t] = "idle" /\ result[t] = "true"
           /\ args[t].op = "mode" /\ args[t].name = "Stew"
           /\ dev.on /\ dev.mode = 1
           /\ status # << >> /\ status[1].power) =>
              /\ target_mode_str = "Stew"
              /\ (Calls(t, "mode") /\ args'[t].name = "Stew") =>
                     (pc'[t] = "idle" /\ cmd'[t] = cmd[t])]_vars

====
